---- MODULE Spec2Model ----
(***************************************************************************)
(* Model of the transaction executor and retry coordinator of              *)
(* github.com/hekimapro/utils/database (transaction.go), together with the *)
(* parts of the error helpers and of the error classifier they call.       *)
(*                                                                         *)
(* One behaviour is one call of Transaction, TransactionWithIsolation or   *)
(* TransactionWithRetry.  The driver (BeginTx, Commit, Rollback), the      *)
(* caller's operation and the context deadline are the environment: their  *)
(* outcomes are chosen nondeterministically from small sets.               *)
(*                                                                         *)
(* A second specification, ClassifySpec, has a caller hand one error to    *)
(* AnalyzeDatabaseError, ShouldRetryError and isRetryableTransactionError. *)
(***************************************************************************)
EXTENDS Integers, Sequences, FiniteSets, TLC

\* maxRetries is drawn from -1 .. MaxRetriesBound
MaxRetriesBound == 5

\* constraint names given to the classifier have 1 .. MaxWords column words
MaxWords == 2

\* transaction.go:184-186: backoff is attempt*attempt seconds, capped at 10 s
BackoffCapSeconds == 10

-----------------------------------------------------------------------------
(* Error values.  An error is a chain: the context messages added by       *)
(* WrapError (outermost first) around a root error.  Roots are a driver    *)
(* error (a pq.Error, val = SQLSTATE code), a context error (val = its      *)
(* name) or a plain errors.New / fmt.Errorf error (val = its text).        *)

Nil == [wraps |-> <<>>, kind |-> "nil", val |-> ""]

\* a pq.Error: Code, and the Constraint, Table, Column and Message the server sent
DriverError(code, constraint, table, column, message) ==
    [wraps |-> <<>>, kind |-> "pq", val |-> code,
     Constraint |-> constraint, Table |-> table, Column |-> column, Message |-> message]

\* a pq.Error of which only the code is filled in
PqError(code) == DriverError(code, <<>>, <<>>, <<>>, <<>>)

CtxError(name) == [wraps |-> <<>>, kind |-> "ctx", val |-> name]

CreateError(message) == [wraps |-> <<>>, kind |-> "plain", val |-> message]

\* fmt.Errorf without %w: a new error whose text is computed (a character sequence)
Errorf(text) == [wraps |-> <<>>, kind |-> "text", val |-> "", text |-> text]

\* helpers.WrapError: fmt.Errorf("%s: %w", message, err); a nil err gives a new error
WrapError(err, message) ==
    IF err = Nil THEN CreateError(message)
    ELSE [err EXCEPT !.wraps = <<message>> \o @]

\* err.Error() as the sequence of its ": "-separated parts
ErrorString(err) == err.wraps \o <<err.val>>

\* errors.Is(err, context.Canceled / context.DeadlineExceeded): %w keeps the chain
errorsIs(err, name) == err.kind = "ctx" /\ err.val = name

\* errors.As(err, &pqErr)
errorsAsPq(err) == err.kind = "pq"

(* Panic payloads: recover() returns the value given to panic.  NoPanic is *)
(* the nil that recover() returns when the goroutine is not panicking.     *)
NoPanic == [t |-> "none", s |-> "", n |-> 0]

PanicPayloads == {[t |-> "string", s |-> "boom", n |-> 0], [t |-> "int", s |-> "", n |-> 42]}

\* fmt's %v of a panic payload
FormatV(p) == IF p.t = "int" THEN ToString(p.n) ELSE p.s

\* how a call that ends by a panic unwinding through it is recorded in result
PanicExit(p) == [wraps |-> <<>>, kind |-> "panic", val |-> FormatV(p)]

-----------------------------------------------------------------------------
(* Texts.  A Go string whose contents the code looks into (a constraint    *)
(* name, a message, err.Error()) is the sequence of its characters, each a *)
(* one-character string.  Spell gives the characters of the string         *)
(* literals of the code and of the model's errors.                         *)

Spell(s) ==
    CASE s = "A record with these details already exists" ->
          <<"A", " ", "r", "e", "c", "o", "r", "d", " ", "w", "i", "t", "h", " ", "t",
            "h", "e", "s", "e", " ", "d", "e", "t", "a", "i", "l", "s", " ", "a", "l",
            "r", "e", "a", "d", "y", " ", "e", "x", "i", "s", "t", "s">>
      [] s = " already exists" ->
          <<" ", "a", "l", "r", "e", "a", "d", "y", " ", "e", "x", "i", "s", "t", "s">>
      [] s = "A duplicate record already exists" ->
          <<"A", " ", "d", "u", "p", "l", "i", "c", "a", "t", "e", " ", "r", "e", "c",
            "o", "r", "d", " ", "a", "l", "r", "e", "a", "d", "y", " ", "e", "x", "i",
            "s", "t", "s">>
      [] s = "The referenced record does not exist" ->
          <<"T", "h", "e", " ", "r", "e", "f", "e", "r", "e", "n", "c", "e", "d", " ",
            "r", "e", "c", "o", "r", "d", " ", "d", "o", "e", "s", " ", "n", "o", "t",
            " ", "e", "x", "i", "s", "t">>
      [] s = "The referenced record in '" ->
          <<"T", "h", "e", " ", "r", "e", "f", "e", "r", "e", "n", "c", "e", "d", " ",
            "r", "e", "c", "o", "r", "d", " ", "i", "n", " ", "'">>
      [] s = "' does not exist" ->
          <<"'", " ", "d", "o", "e", "s", " ", "n", "o", "t", " ", "e", "x", "i", "s",
            "t">>
      [] s = "Referenced record does not exist" ->
          <<"R", "e", "f", "e", "r", "e", "n", "c", "e", "d", " ", "r", "e", "c", "o",
            "r", "d", " ", "d", "o", "e", "s", " ", "n", "o", "t", " ", "e", "x", "i",
            "s", "t">>
      [] s = "Required field cannot be empty" ->
          <<"R", "e", "q", "u", "i", "r", "e", "d", " ", "f", "i", "e", "l", "d", " ",
            "c", "a", "n", "n", "o", "t", " ", "b", "e", " ", "e", "m", "p", "t", "y">>
      [] s = " is required and cannot be empty" ->
          <<" ", "i", "s", " ", "r", "e", "q", "u", "i", "r", "e", "d", " ", "a", "n",
            "d", " ", "c", "a", "n", "n", "o", "t", " ", "b", "e", " ", "e", "m", "p",
            "t", "y">>
      [] s = "The provided data does not meet the required constraints" ->
          <<"T", "h", "e", " ", "p", "r", "o", "v", "i", "d", "e", "d", " ", "d", "a",
            "t", "a", " ", "d", "o", "e", "s", " ", "n", "o", "t", " ", "m", "e", "e",
            "t", " ", "t", "h", "e", " ", "r", "e", "q", "u", "i", "r", "e", "d", " ",
            "c", "o", "n", "s", "t", "r", "a", "i", "n", "t", "s">>
      [] s = "Data validation failed for constraint '" ->
          <<"D", "a", "t", "a", " ", "v", "a", "l", "i", "d", "a", "t", "i", "o", "n",
            " ", "f", "a", "i", "l", "e", "d", " ", "f", "o", "r", " ", "c", "o", "n",
            "s", "t", "r", "a", "i", "n", "t", " ", "'">>
      [] s = "'" ->
          <<"'">>
      [] s = "Table '" ->
          <<"T", "a", "b", "l", "e", " ", "'">>
      [] s = "Column '" ->
          <<"C", "o", "l", "u", "m", "n", " ", "'">>
      [] s = "' does not exist in table '" ->
          <<"'", " ", "d", "o", "e", "s", " ", "n", "o", "t", " ", "e", "x", "i", "s",
            "t", " ", "i", "n", " ", "t", "a", "b", "l", "e", " ", "'">>
      [] s = "Database authentication failed" ->
          <<"D", "a", "t", "a", "b", "a", "s", "e", " ", "a", "u", "t", "h", "e", "n",
            "t", "i", "c", "a", "t", "i", "o", "n", " ", "f", "a", "i", "l", "e", "d">>
      [] s = "Database lock timeout occurred" ->
          <<"D", "a", "t", "a", "b", "a", "s", "e", " ", "l", "o", "c", "k", " ", "t",
            "i", "m", "e", "o", "u", "t", " ", "o", "c", "c", "u", "r", "r", "e", "d">>
      [] s = "Too many database connections" ->
          <<"T", "o", "o", " ", "m", "a", "n", "y", " ", "d", "a", "t", "a", "b", "a",
            "s", "e", " ", "c", "o", "n", "n", "e", "c", "t", "i", "o", "n", "s">>
      [] s = "Database query was cancelled" ->
          <<"D", "a", "t", "a", "b", "a", "s", "e", " ", "q", "u", "e", "r", "y", " ",
            "w", "a", "s", " ", "c", "a", "n", "c", "e", "l", "l", "e", "d">>
      [] s = "Database error: " ->
          <<"D", "a", "t", "a", "b", "a", "s", "e", " ", "e", "r", "r", "o", "r", ":",
            " ">>
      [] s = "Error analysis was cancelled" ->
          <<"E", "r", "r", "o", "r", " ", "a", "n", "a", "l", "y", "s", "i", "s", " ",
            "w", "a", "s", " ", "c", "a", "n", "c", "e", "l", "l", "e", "d">>
      [] s = "_key" ->
          <<"_", "k", "e", "y">>
      [] s = "connection" ->
          <<"c", "o", "n", "n", "e", "c", "t", "i", "o", "n">>
      [] s = "connect" ->
          <<"c", "o", "n", "n", "e", "c", "t">>
      [] s = "timeout" ->
          <<"t", "i", "m", "e", "o", "u", "t">>
      [] s = "deadline" ->
          <<"d", "e", "a", "d", "l", "i", "n", "e">>
      [] s = "pq: " ->
          <<"p", "q", ":", " ">>
      [] s = ": " ->
          <<":", " ">>
      [] s = "context canceled" ->
          <<"c", "o", "n", "t", "e", "x", "t", " ", "c", "a", "n", "c", "e", "l", "e",
            "d">>
      [] s = "context deadline exceeded" ->
          <<"c", "o", "n", "t", "e", "x", "t", " ", "d", "e", "a", "d", "l", "i", "n",
            "e", " ", "e", "x", "c", "e", "e", "d", "e", "d">>
      [] s = "operation failed" ->
          <<"o", "p", "e", "r", "a", "t", "i", "o", "n", " ", "f", "a", "i", "l", "e",
            "d">>
      [] s = "connection refused" ->
          <<"c", "o", "n", "n", "e", "c", "t", "i", "o", "n", " ", "r", "e", "f", "u",
            "s", "e", "d">>
      [] s = "driver: bad connection" ->
          <<"d", "r", "i", "v", "e", "r", ":", " ", "b", "a", "d", " ", "c", "o", "n",
            "n", "e", "c", "t", "i", "o", "n">>
      [] s = "sql: transaction has already been committed or rolled back" ->
          <<"s", "q", "l", ":", " ", "t", "r", "a", "n", "s", "a", "c", "t", "i", "o",
            "n", " ", "h", "a", "s", " ", "a", "l", "r", "e", "a", "d", "y", " ", "b",
            "e", "e", "n", " ", "c", "o", "m", "m", "i", "t", "t", "e", "d", " ", "o",
            "r", " ", "r", "o", "l", "l", "e", "d", " ", "b", "a", "c", "k">>
      [] s = "boom" ->
          <<"b", "o", "o", "m">>
      [] s = "42" ->
          <<"4", "2">>
      [] s = "failed to commit isolation transaction" ->
          <<"f", "a", "i", "l", "e", "d", " ", "t", "o", " ", "c", "o", "m", "m", "i",
            "t", " ", "i", "s", "o", "l", "a", "t", "i", "o", "n", " ", "t", "r", "a",
            "n", "s", "a", "c", "t", "i", "o", "n">>
      [] s = "failed to commit transaction" ->
          <<"f", "a", "i", "l", "e", "d", " ", "t", "o", " ", "c", "o", "m", "m", "i",
            "t", " ", "t", "r", "a", "n", "s", "a", "c", "t", "i", "o", "n">>
      [] s = "failed to start transaction with isolation level" ->
          <<"f", "a", "i", "l", "e", "d", " ", "t", "o", " ", "s", "t", "a", "r", "t",
            " ", "t", "r", "a", "n", "s", "a", "c", "t", "i", "o", "n", " ", "w", "i",
            "t", "h", " ", "i", "s", "o", "l", "a", "t", "i", "o", "n", " ", "l", "e",
            "v", "e", "l">>
      [] s = "failed to start transaction" ->
          <<"f", "a", "i", "l", "e", "d", " ", "t", "o", " ", "s", "t", "a", "r", "t",
            " ", "t", "r", "a", "n", "s", "a", "c", "t", "i", "o", "n">>
      [] s = "isolation transaction cancelled before commit" ->
          <<"i", "s", "o", "l", "a", "t", "i", "o", "n", " ", "t", "r", "a", "n", "s",
            "a", "c", "t", "i", "o", "n", " ", "c", "a", "n", "c", "e", "l", "l", "e",
            "d", " ", "b", "e", "f", "o", "r", "e", " ", "c", "o", "m", "m", "i", "t">>
      [] s = "isolation transaction cancelled before operation execution" ->
          <<"i", "s", "o", "l", "a", "t", "i", "o", "n", " ", "t", "r", "a", "n", "s",
            "a", "c", "t", "i", "o", "n", " ", "c", "a", "n", "c", "e", "l", "l", "e",
            "d", " ", "b", "e", "f", "o", "r", "e", " ", "o", "p", "e", "r", "a", "t",
            "i", "o", "n", " ", "e", "x", "e", "c", "u", "t", "i", "o", "n">>
      [] s = "isolation transaction cancelled before start" ->
          <<"i", "s", "o", "l", "a", "t", "i", "o", "n", " ", "t", "r", "a", "n", "s",
            "a", "c", "t", "i", "o", "n", " ", "c", "a", "n", "c", "e", "l", "l", "e",
            "d", " ", "b", "e", "f", "o", "r", "e", " ", "s", "t", "a", "r", "t">>
      [] s = "isolation transaction panicked" ->
          <<"i", "s", "o", "l", "a", "t", "i", "o", "n", " ", "t", "r", "a", "n", "s",
            "a", "c", "t", "i", "o", "n", " ", "p", "a", "n", "i", "c", "k", "e", "d">>
      [] s = "rollback failed after context cancellation" ->
          <<"r", "o", "l", "l", "b", "a", "c", "k", " ", "f", "a", "i", "l", "e", "d",
            " ", "a", "f", "t", "e", "r", " ", "c", "o", "n", "t", "e", "x", "t", " ",
            "c", "a", "n", "c", "e", "l", "l", "a", "t", "i", "o", "n">>
      [] s = "rollback failed after panic" ->
          <<"r", "o", "l", "l", "b", "a", "c", "k", " ", "f", "a", "i", "l", "e", "d",
            " ", "a", "f", "t", "e", "r", " ", "p", "a", "n", "i", "c">>
      [] s = "rollback failed" ->
          <<"r", "o", "l", "l", "b", "a", "c", "k", " ", "f", "a", "i", "l", "e", "d">>
      [] s = "transaction cancelled before commit" ->
          <<"t", "r", "a", "n", "s", "a", "c", "t", "i", "o", "n", " ", "c", "a", "n",
            "c", "e", "l", "l", "e", "d", " ", "b", "e", "f", "o", "r", "e", " ", "c",
            "o", "m", "m", "i", "t">>
      [] s = "transaction cancelled before operation execution" ->
          <<"t", "r", "a", "n", "s", "a", "c", "t", "i", "o", "n", " ", "c", "a", "n",
            "c", "e", "l", "l", "e", "d", " ", "b", "e", "f", "o", "r", "e", " ", "o",
            "p", "e", "r", "a", "t", "i", "o", "n", " ", "e", "x", "e", "c", "u", "t",
            "i", "o", "n">>
      [] s = "transaction cancelled before start" ->
          <<"t", "r", "a", "n", "s", "a", "c", "t", "i", "o", "n", " ", "c", "a", "n",
            "c", "e", "l", "l", "e", "d", " ", "b", "e", "f", "o", "r", "e", " ", "s",
            "t", "a", "r", "t">>
      [] s = "transaction failed after maximum retries" ->
          <<"t", "r", "a", "n", "s", "a", "c", "t", "i", "o", "n", " ", "f", "a", "i",
            "l", "e", "d", " ", "a", "f", "t", "e", "r", " ", "m", "a", "x", "i", "m",
            "u", "m", " ", "r", "e", "t", "r", "i", "e", "s">>
      [] s = "transaction panicked" ->
          <<"t", "r", "a", "n", "s", "a", "c", "t", "i", "o", "n", " ", "p", "a", "n",
            "i", "c", "k", "e", "d">>
      [] s = "transaction retry cancelled during backoff" ->
          <<"t", "r", "a", "n", "s", "a", "c", "t", "i", "o", "n", " ", "r", "e", "t",
            "r", "y", " ", "c", "a", "n", "c", "e", "l", "l", "e", "d", " ", "d", "u",
            "r", "i", "n", "g", " ", "b", "a", "c", "k", "o", "f", "f">>
      [] s = "transaction with retry cancelled" ->
          <<"t", "r", "a", "n", "s", "a", "c", "t", "i", "o", "n", " ", "w", "i", "t",
            "h", " ", "r", "e", "t", "r", "y", " ", "c", "a", "n", "c", "e", "l", "l",
            "e", "d">>
      [] s = "Connection reset by peer" ->
          <<"C", "o", "n", "n", "e", "c", "t", "i", "o", "n", " ", "r", "e", "s", "e",
            "t", " ", "b", "y", " ", "p", "e", "e", "r">>
      [] s = "could not serialize access due to concurrent update" ->
          <<"c", "o", "u", "l", "d", " ", "n", "o", "t", " ", "s", "e", "r", "i", "a",
            "l", "i", "z", "e", " ", "a", "c", "c", "e", "s", "s", " ", "d", "u", "e",
            " ", "t", "o", " ", "c", "o", "n", "c", "u", "r", "r", "e", "n", "t", " ",
            "u", "p", "d", "a", "t", "e">>
      [] s = "terminating connection due to administrator command" ->
          <<"t", "e", "r", "m", "i", "n", "a", "t", "i", "n", "g", " ", "c", "o", "n",
            "n", "e", "c", "t", "i", "o", "n", " ", "d", "u", "e", " ", "t", "o", " ",
            "a", "d", "m", "i", "n", "i", "s", "t", "r", "a", "t", "o", "r", " ", "c",
            "o", "m", "m", "a", "n", "d">>
      [] s = "users" ->
          <<"u", "s", "e", "r", "s">>
      [] s = "org" ->
          <<"o", "r", "g">>
      [] s = "email" ->
          <<"e", "m", "a", "i", "l">>
      [] s = "id" ->
          <<"i", "d">>
      [] s = "first_name" ->
          <<"f", "i", "r", "s", "t", "_", "n", "a", "m", "e">>
      [] s = "DATABASE_USERNAME" ->
          <<"D", "A", "T", "A", "B", "A", "S", "E", "_", "U", "S", "E", "R", "N", "A",
            "M", "E">>
      [] s = "DATABASE_PASSWORD" ->
          <<"D", "A", "T", "A", "B", "A", "S", "E", "_", "P", "A", "S", "S", "W", "O",
            "R", "D">>
      [] s = "DATABASE_HOST" ->
          <<"D", "A", "T", "A", "B", "A", "S", "E", "_", "H", "O", "S", "T">>
      [] s = "DATABASE_PORT" ->
          <<"D", "A", "T", "A", "B", "A", "S", "E", "_", "P", "O", "R", "T">>
      [] s = "DATABASE_NAME" ->
          <<"D", "A", "T", "A", "B", "A", "S", "E", "_", "N", "A", "M", "E">>
      [] s = "DATABASE_SSL_MODE" ->
          <<"D", "A", "T", "A", "B", "A", "S", "E", "_", "S", "S", "L", "_", "M", "O",
            "D", "E">>
      [] s = ".env file is missing required database option(s): " ->
          <<".", "e", "n", "v", " ", "f", "i", "l", "e", " ", "i", "s", " ", "m", "i",
            "s", "s", "i", "n", "g", " ", "r", "e", "q", "u", "i", "r", "e", "d", " ",
            "d", "a", "t", "a", "b", "a", "s", "e", " ", "o", "p", "t", "i", "o", "n",
            "(", "s", ")", ":", " ">>
      [] s = ", " ->
          <<",", " ">>
      [] s = "postgres" ->
          <<"p", "o", "s", "t", "g", "r", "e", "s">>
      [] s = "localhost" ->
          <<"l", "o", "c", "a", "l", "h", "o", "s", "t">>
      [] s = "5432" ->
          <<"5", "4", "3", "2">>
      [] s = "app" ->
          <<"a", "p", "p">>
      [] s = "secret" ->
          <<"s", "e", "c", "r", "e", "t">>
      [] s = "disable" ->
          <<"d", "i", "s", "a", "b", "l", "e">>

ToLowerChar(c) ==
    CASE c = "A" -> "a"
      [] c = "B" -> "b"
      [] c = "C" -> "c"
      [] c = "D" -> "d"
      [] c = "E" -> "e"
      [] c = "F" -> "f"
      [] c = "G" -> "g"
      [] c = "H" -> "h"
      [] c = "I" -> "i"
      [] c = "J" -> "j"
      [] c = "K" -> "k"
      [] c = "L" -> "l"
      [] c = "M" -> "m"
      [] c = "N" -> "n"
      [] c = "O" -> "o"
      [] c = "P" -> "p"
      [] c = "Q" -> "q"
      [] c = "R" -> "r"
      [] c = "S" -> "s"
      [] c = "T" -> "t"
      [] c = "U" -> "u"
      [] c = "V" -> "v"
      [] c = "W" -> "w"
      [] c = "X" -> "x"
      [] c = "Y" -> "y"
      [] c = "Z" -> "z"
      [] OTHER -> c
\* strings.ToLower
ToLower(t) == IF t = <<>> THEN <<>> ELSE [i \in 1 .. Len(t) |-> ToLowerChar(t[i])]

\* strings.Contains
Contains(t, sub) ==
    \E i \in 0 .. (Len(t) - Len(sub)) : SubSeq(t, i + 1, i + Len(sub)) = sub

\* strings.TrimSuffix
TrimSuffix(t, suffix) ==
    IF Len(t) >= Len(suffix) /\ SubSeq(t, Len(t) - Len(suffix) + 1, Len(t)) = suffix
    THEN SubSeq(t, 1, Len(t) - Len(suffix))
    ELSE t

\* strings.Split with a one-character separator: the parts between the
\* separators, empty parts included; a text without separator is one part
RECURSIVE Split(_, _)
Split(t, sep) ==
    IF \A i \in 1 .. Len(t) : t[i] # sep THEN <<t>>
    ELSE LET i == CHOOSE k \in 1 .. Len(t) : t[k] = sep /\ \A j \in 1 .. (k - 1) : t[j] # sep
         IN  <<SubSeq(t, 1, i - 1)>> \o Split(SubSeq(t, i + 1, Len(t)), sep)

\* strings.Join
RECURSIVE Join(_, _)
Join(parts, sep) ==
    IF parts = <<>> THEN <<>>
    ELSE IF Len(parts) = 1 THEN parts[1]
    ELSE parts[1] \o sep \o Join(Tail(parts), sep)

\* strings.ReplaceAll of one character by another
ReplaceAll(t, old, new) ==
    IF t = <<>> THEN <<>> ELSE [i \in 1 .. Len(t) |-> IF t[i] = old THEN new ELSE t[i]]

\* err.Error(): the messages added by WrapError, each followed by ": ", then
\* the text of the root error ("pq: " and the server's message for a driver
\* error, the context package's text for a context error)
RootText(err) ==
    IF err.kind = "pq" THEN Spell("pq: ") \o err.Message
    ELSE IF err.kind = "ctx"
         THEN (IF err.val = "Canceled" THEN Spell("context canceled")
               ELSE Spell("context deadline exceeded"))
    ELSE IF err.kind = "text" THEN err.text
    ELSE Spell(err.val)

RECURSIVE ErrorText(_)
ErrorText(err) ==
    IF err.wraps = <<>> THEN RootText(err)
    ELSE Spell(Head(err.wraps)) \o Spell(": ") \o ErrorText([err EXCEPT !.wraps = Tail(@)])

-----------------------------------------------------------------------------
(* Error classifier (AnalyzeDatabaseError).                                *)

NonRetryableKinds ==
    {"duplicate", "foreign_key", "not_null", "check_constraint",
     "undefined_table", "undefined_column", "authentication"}

RetryableKinds == {"lock_timeout", "too_many_connections", "query_cancelled"}

\* variant: the cases of undefined table and undefined column are exchanged
ErrorTypeOfCode_TableColumnExchanged(code) ==
    CASE code = "23505" -> "duplicate"
      [] code = "23503" -> "foreign_key"
      [] code = "23502" -> "not_null"
      [] code = "23514" -> "check_constraint"
      [] code = "42P01" -> "undefined_column"
      [] code = "42703" -> "undefined_table"
      [] code \in {"28000", "28P01"} -> "authentication"
      [] code = "55P03" -> "lock_timeout"
      [] code = "53300" -> "too_many_connections"
      [] code = "57014" -> "query_cancelled"
      [] OTHER -> "unknown"

\* variant: the default case names the kind generic
ErrorTypeOfCode_DefaultGeneric(code) ==
    CASE code = "23505" -> "duplicate"
      [] code = "23503" -> "foreign_key"
      [] code = "23502" -> "not_null"
      [] code = "23514" -> "check_constraint"
      [] code = "42P01" -> "undefined_table"
      [] code = "42703" -> "undefined_column"
      [] code \in {"28000", "28P01"} -> "authentication"
      [] code = "55P03" -> "lock_timeout"
      [] code = "53300" -> "too_many_connections"
      [] code = "57014" -> "query_cancelled"
      [] OTHER -> "generic"

\* the switch on pqErr.Code
ErrorTypeOfCode(code) ==
    CASE code = "23505" -> "duplicate"
      [] code = "23503" -> "foreign_key"
      [] code = "23502" -> "not_null"
      [] code = "23514" -> "check_constraint"
      [] code = "42P01" -> "undefined_table"
      [] code = "42703" -> "undefined_column"
      [] code \in {"28000", "28P01"} -> "authentication"
      [] code = "55P03" -> "lock_timeout"
      [] code = "53300" -> "too_many_connections"
      [] code = "57014" -> "query_cancelled"
      [] OTHER -> "unknown"

\* variant: the table name is not dropped from the label
extractColumnLabel_KeepsTable(constraint) ==
    LET trimmed == TrimSuffix(constraint, Spell("_key"))
        parts == Split(trimmed, "_")
    IN  IF Len(parts) <= 1 THEN trimmed ELSE Join(parts, <<" ">>)

\* "users_email_address_key" gives "email address"
extractColumnLabel(constraint) ==
    LET trimmed == TrimSuffix(constraint, Spell("_key"))
        parts == Split(trimmed, "_")
    IN  IF Len(parts) <= 1 THEN trimmed ELSE Join(Tail(parts), <<" ">>)

generateDuplicateErrorMessage(constraint, table) ==
    IF constraint = <<>> THEN Spell("A record with these details already exists")
    ELSE LET fieldName == extractColumnLabel(constraint)
         IN  IF fieldName # <<>> THEN fieldName \o Spell(" already exists")
             ELSE Spell("A duplicate record already exists")

generateForeignKeyErrorMessage(constraint, table) ==
    IF constraint = <<>> THEN Spell("The referenced record does not exist")
    ELSE LET parts == Split(constraint, "_")
         IN  IF Len(parts) >= 2
             THEN Spell("The referenced record in '") \o parts[1] \o Spell("' does not exist")
             ELSE Spell("Referenced record does not exist")

generateNotNullErrorMessage(column, table) ==
    IF column = <<>> THEN Spell("Required field cannot be empty")
    ELSE ReplaceAll(column, "_", " ") \o Spell(" is required and cannot be empty")

generateCheckConstraintErrorMessage(constraint) ==
    IF constraint = <<>> THEN Spell("The provided data does not meet the required constraints")
    ELSE Spell("Data validation failed for constraint '") \o constraint \o Spell("'")

\* dbError.Message as set in the switch on pqErr.Code
MessageOfCode(pqErr) ==
    CASE pqErr.val = "23505" -> generateDuplicateErrorMessage(pqErr.Constraint, pqErr.Table)
      [] pqErr.val = "23503" -> generateForeignKeyErrorMessage(pqErr.Constraint, pqErr.Table)
      [] pqErr.val = "23502" -> generateNotNullErrorMessage(pqErr.Column, pqErr.Table)
      [] pqErr.val = "23514" -> generateCheckConstraintErrorMessage(pqErr.Constraint)
      [] pqErr.val = "42P01" -> Spell("Table '") \o pqErr.Table \o Spell("' does not exist")
      [] pqErr.val = "42703" -> Spell("Column '") \o pqErr.Column
                                   \o Spell("' does not exist in table '") \o pqErr.Table
                                   \o Spell("'")
      [] pqErr.val \in {"28000", "28P01"} -> Spell("Database authentication failed")
      [] pqErr.val = "55P03" -> Spell("Database lock timeout occurred")
      [] pqErr.val = "53300" -> Spell("Too many database connections")
      [] pqErr.val = "57014" -> Spell("Database query was cancelled")
      [] OTHER -> Spell("Database error: ") \o pqErr.Message

\* the nil *DatabaseError
NilDatabaseError ==
    [isNil |-> TRUE, OriginalError |-> Nil, ErrorType |-> "", Constraint |-> <<>>,
     Message |-> <<>>, Table |-> <<>>, Column |-> <<>>]

analyzeDatabaseErrorWithContext(ctxDone, err) ==
    IF ctxDone
    THEN [isNil |-> FALSE, OriginalError |-> err, ErrorType |-> "analysis_cancelled",
          Constraint |-> <<>>, Message |-> Spell("Error analysis was cancelled"),
          Table |-> <<>>, Column |-> <<>>]
    ELSE IF err = Nil THEN NilDatabaseError
    ELSE IF errorsAsPq(err)
         THEN [isNil |-> FALSE, OriginalError |-> err, ErrorType |-> ErrorTypeOfCode(err.val),
               Constraint |-> err.Constraint, Message |-> MessageOfCode(err),
               Table |-> err.Table, Column |-> err.Column]
         ELSE [isNil |-> FALSE, OriginalError |-> err, ErrorType |-> "generic",
               Constraint |-> <<>>, Message |-> ErrorText(err), Table |-> <<>>,
               Column |-> <<>>]

\* the context is created by the call itself with a 5 s timeout and tested at
\* once: it has not expired
AnalyzeDatabaseError(err) == analyzeDatabaseErrorWithContext(FALSE, err)

\* IsConnectionError
IsConnectionError(err) ==
    LET dbError == AnalyzeDatabaseError(err)
    IN  IF dbError.isNil THEN FALSE
        ELSE \/ dbError.ErrorType \in {"authentication", "too_many_connections"}
             \/ Contains(ToLower(ErrorText(err)), Spell("connection"))
             \/ Contains(ToLower(ErrorText(err)), Spell("connect"))

\* IsTimeoutError
IsTimeoutError(err) ==
    LET dbError == AnalyzeDatabaseError(err)
    IN  IF dbError.isNil THEN FALSE
        ELSE \/ dbError.ErrorType = "query_cancelled"
             \/ Contains(ToLower(ErrorText(err)), Spell("timeout"))
             \/ Contains(ToLower(ErrorText(err)), Spell("deadline"))

\* the map retryableErrors of ShouldRetryError
retryableErrors ==
    [lock_timeout |-> TRUE, query_cancelled |-> TRUE, authentication |-> FALSE,
     too_many_connections |-> TRUE, duplicate |-> FALSE, foreign_key |-> FALSE,
     not_null |-> FALSE]

ShouldRetryError(err) ==
    LET dbError == AnalyzeDatabaseError(err)
    IN  IF dbError.isNil THEN FALSE
        ELSE IF dbError.ErrorType \in DOMAIN retryableErrors
             THEN retryableErrors[dbError.ErrorType]
             ELSE IsConnectionError(err) \/ IsTimeoutError(err)

-----------------------------------------------------------------------------
(* Retry coordinator helpers.                                              *)

\* variant: the retryable set also lists authentication failures
isRetryableTransactionError_RetriesAuthentication(err) ==
    IF err = Nil THEN FALSE
    ELSE IF errorsIs(err, "Canceled") \/ errorsIs(err, "DeadlineExceeded") THEN FALSE
    ELSE AnalyzeDatabaseError(err).ErrorType \in RetryableKinds \cup {"authentication"}

\* variant: a cancellation error is retried like a transient one
isRetryableTransactionError_RetriesCancellation(err) ==
    IF err = Nil THEN FALSE
    ELSE IF errorsIs(err, "Canceled") \/ errorsIs(err, "DeadlineExceeded") THEN TRUE
    ELSE AnalyzeDatabaseError(err).ErrorType \in RetryableKinds

isRetryableTransactionError(err) ==
    IF err = Nil THEN FALSE
    ELSE IF errorsIs(err, "Canceled") \/ errorsIs(err, "DeadlineExceeded") THEN FALSE
    ELSE LET dbError == AnalyzeDatabaseError(err)
         IN  IF ~dbError.isNil THEN dbError.ErrorType \in RetryableKinds ELSE FALSE

\* variant: the backoff is not scaled by the attempt number
backoffDuration_Constant(attempt) == IF attempt > 0 THEN 1 ELSE 0

\* variant: the backoff is not capped
backoffDuration_NoCap(attempt) == attempt * attempt

\* seconds waited before retry number attempt (attempt > 0)
backoffDuration(attempt) ==
    IF attempt * attempt > BackoffCapSeconds THEN BackoffCapSeconds ELSE attempt * attempt

\* variant: a negative maxRetries is used as it is
clampMaxRetries_NoClamp(n) == n

\* if maxRetries < 0 { maxRetries = 0 }
clampMaxRetries(n) == IF n < 0 THEN 0 ELSE n

\* variant: the loop stops one attempt early
loopContinues_OffByOne(a, m) == a < m

\* the condition of the for loop
loopContinues(a, m) == a <= m

-----------------------------------------------------------------------------
(* The deferred function of transactionWithContext, as a function of what  *)
(* it reads: the recovered panic payload, the named result err, the        *)
(* context error ("none" when the context is not done) and the results the *)
(* driver gives to the Rollback or Commit it calls.  It yields the new err *)
(* and which driver calls were made; panicking tells whether a panic is    *)
(* still unwinding when it returns (recover() was not reached).            *)

\* variants of the deferred function, each with one slip:
\*   "also_rolls_back": Rollback is called after the Commit as well
\*   "error_commits":   an operation error does not stop the commit
\*   "rollback_after_failed_commit": a failed Commit is followed by a Rollback
\*   "no_precommit_check": the context is not looked at before the commit
cleanupVariant(bug, recovered, err, ctxErr, rollbackErr, commitErr) ==
    IF recovered # NoPanic THEN
        [commits |-> 0, rollbacks |-> 1, panicking |-> FALSE, sawCancel |-> FALSE,
         err |-> IF rollbackErr # Nil
                 THEN WrapError(rollbackErr, "rollback failed after panic")
                 ELSE WrapError(CreateError(FormatV(recovered)), "transaction panicked")]
    ELSE IF err # Nil /\ bug # "error_commits" THEN
        [commits |-> 0, rollbacks |-> 1, panicking |-> FALSE, sawCancel |-> FALSE,
         err |-> IF rollbackErr # Nil
                 THEN WrapError(rollbackErr, "rollback failed")
                 ELSE err]
    ELSE IF ctxErr # "none" /\ bug # "no_precommit_check" THEN
        [commits |-> 0, rollbacks |-> 1, panicking |-> FALSE, sawCancel |-> TRUE,
         err |-> IF rollbackErr # Nil
                 THEN WrapError(rollbackErr, "rollback failed after context cancellation")
                 ELSE WrapError(CtxError(ctxErr), "transaction cancelled before commit")]
    ELSE
        [commits |-> 1,
         rollbacks |-> IF \/ bug = "also_rolls_back"
                          \/ bug = "rollback_after_failed_commit" /\ commitErr # Nil
                       THEN 1 ELSE 0,
         panicking |-> FALSE, sawCancel |-> FALSE,
         err |-> IF commitErr # Nil
                 THEN WrapError(commitErr, "failed to commit transaction")
                 ELSE err]

deferredCleanup_AlsoRollsBack(recovered, err, ctxErr, rollbackErr, commitErr) ==
    cleanupVariant("also_rolls_back", recovered, err, ctxErr, rollbackErr, commitErr)

deferredCleanup_ErrorCommits(recovered, err, ctxErr, rollbackErr, commitErr) ==
    cleanupVariant("error_commits", recovered, err, ctxErr, rollbackErr, commitErr)

deferredCleanup_RollbackAfterFailedCommit(recovered, err, ctxErr, rollbackErr, commitErr) ==
    cleanupVariant("rollback_after_failed_commit", recovered, err, ctxErr, rollbackErr, commitErr)

deferredCleanup_NoPrecommitCheck(recovered, err, ctxErr, rollbackErr, commitErr) ==
    cleanupVariant("no_precommit_check", recovered, err, ctxErr, rollbackErr, commitErr)

deferredCleanup(recovered, err, ctxErr, rollbackErr, commitErr) ==
    IF recovered # NoPanic THEN
        [commits |-> 0, rollbacks |-> 1, panicking |-> FALSE, sawCancel |-> FALSE,
         err |-> IF rollbackErr # Nil
                 THEN WrapError(rollbackErr, "rollback failed after panic")
                 ELSE WrapError(CreateError(FormatV(recovered)), "transaction panicked")]
    ELSE IF err # Nil THEN
        [commits |-> 0, rollbacks |-> 1, panicking |-> FALSE, sawCancel |-> FALSE,
         err |-> IF rollbackErr # Nil
                 THEN WrapError(rollbackErr, "rollback failed")
                 ELSE err]
    ELSE IF ctxErr # "none" THEN
        [commits |-> 0, rollbacks |-> 1, panicking |-> FALSE, sawCancel |-> TRUE,
         err |-> IF rollbackErr # Nil
                 THEN WrapError(rollbackErr, "rollback failed after context cancellation")
                 ELSE WrapError(CtxError(ctxErr), "transaction cancelled before commit")]
    ELSE
        [commits |-> 1, rollbacks |-> 0, panicking |-> FALSE, sawCancel |-> FALSE,
         err |-> IF commitErr # Nil
                 THEN WrapError(commitErr, "failed to commit transaction")
                 ELSE err]

\* variant: the panic branch sets the error and leaves the transaction open
deferredCleanupIsolation_PanicLeavesOpen(recovered, err, ctxErr, rollbackErr, commitErr) ==
    IF recovered # NoPanic THEN
        [commits |-> 0, rollbacks |-> 0, panicking |-> FALSE, sawCancel |-> FALSE,
         err |-> WrapError(CreateError(FormatV(recovered)), "isolation transaction panicked")]
    ELSE IF err # Nil THEN
        [commits |-> 0, rollbacks |-> 1, panicking |-> FALSE, sawCancel |-> FALSE,
         err |-> IF rollbackErr # Nil THEN WrapError(rollbackErr, "rollback failed") ELSE err]
    ELSE IF ctxErr # "none" THEN
        [commits |-> 0, rollbacks |-> 1, panicking |-> FALSE, sawCancel |-> TRUE,
         err |-> IF rollbackErr # Nil
                 THEN WrapError(rollbackErr, "rollback failed after context cancellation")
                 ELSE WrapError(CtxError(ctxErr), "isolation transaction cancelled before commit")]
    ELSE
        [commits |-> 1, rollbacks |-> 0, panicking |-> FALSE, sawCancel |-> FALSE,
         err |-> IF commitErr # Nil
                 THEN WrapError(commitErr, "failed to commit isolation transaction")
                 ELSE err]

\* the deferred function of transactionWithIsolationAndContext
deferredCleanupIsolation(recovered, err, ctxErr, rollbackErr, commitErr) ==
    IF recovered # NoPanic THEN
        [commits |-> 0, rollbacks |-> 1, panicking |-> FALSE, sawCancel |-> FALSE,
         err |-> WrapError(CreateError(FormatV(recovered)), "isolation transaction panicked")]
    ELSE IF err # Nil THEN
        [commits |-> 0, rollbacks |-> 1, panicking |-> FALSE, sawCancel |-> FALSE,
         err |-> IF rollbackErr # Nil
                 THEN WrapError(rollbackErr, "rollback failed")
                 ELSE err]
    ELSE IF ctxErr # "none" THEN
        [commits |-> 0, rollbacks |-> 1, panicking |-> FALSE, sawCancel |-> TRUE,
         err |-> IF rollbackErr # Nil
                 THEN WrapError(rollbackErr, "rollback failed after context cancellation")
                 ELSE WrapError(CtxError(ctxErr), "isolation transaction cancelled before commit")]
    ELSE
        [commits |-> 1, rollbacks |-> 0, panicking |-> FALSE, sawCancel |-> FALSE,
         err |-> IF commitErr # Nil
                 THEN WrapError(commitErr, "failed to commit isolation transaction")
                 ELSE err]

-----------------------------------------------------------------------------
(* Connection manager (connection.go): pure parts.                         *)

Whitespace == {" ", "\t", "\n", "\r"}

\* strings.TrimSpace
TrimSpace(t) ==
    IF \A i \in 1 .. Len(t) : t[i] \in Whitespace THEN <<>>
    ELSE LET first == CHOOSE i \in 1 .. Len(t) :
                          t[i] \notin Whitespace /\ \A j \in 1 .. (i - 1) : t[j] \in Whitespace
             last == CHOOSE i \in 1 .. Len(t) :
                         t[i] \notin Whitespace /\ \A j \in (i + 1) .. Len(t) : t[j] \in Whitespace
         IN  SubSeq(t, first, last)

\* if strings.TrimSpace(value) == "" { missing = append(missing, name) }
appendIfBlank(missing, value, name) ==
    IF TrimSpace(value) = <<>> THEN Append(missing, Spell(name)) ELSE missing

\* variant: the first missing option ends the validation
validateDatabaseOptions_FirstOnly(opts) ==
    LET blank == {n \in 1 .. 6 :
                     TrimSpace(<<opts.Username, opts.Password, opts.Host, opts.Port,
                                 opts.DatabaseName, opts.SSLMode>>[n]) = <<>>}
        names == <<"DATABASE_USERNAME", "DATABASE_PASSWORD", "DATABASE_HOST", "DATABASE_PORT",
                   "DATABASE_NAME", "DATABASE_SSL_MODE">>
    IN  IF blank = {} THEN Nil
        ELSE Errorf(Spell(".env file is missing required database option(s): ")
                    \o Spell(names[CHOOSE n \in blank : \A m \in blank : n <= m]))

validateDatabaseOptions(opts) ==
    LET m1 == appendIfBlank(<<>>, opts.Username, "DATABASE_USERNAME")
        m2 == appendIfBlank(m1, opts.Password, "DATABASE_PASSWORD")
        m3 == appendIfBlank(m2, opts.Host, "DATABASE_HOST")
        m4 == appendIfBlank(m3, opts.Port, "DATABASE_PORT")
        m5 == appendIfBlank(m4, opts.DatabaseName, "DATABASE_NAME")
        missing == appendIfBlank(m5, opts.SSLMode, "DATABASE_SSL_MODE")
    IN  IF Len(missing) > 0
        THEN Errorf(Spell(".env file is missing required database option(s): ")
                    \o Join(missing, Spell(", ")))
        ELSE Nil

\* variant: closeDone is made without a buffer
makeCloseDone_Unbuffered == [cap |-> 0, buf |-> <<>>]

\* closeDone := make(chan error, 1)
makeCloseDone == [cap |-> 1, buf |-> <<>>]

\* a channel variable that has not been made
NilChannel == [cap |-> 0, buf |-> <<>>]

-----------------------------------------------------------------------------
(* Environment: what the driver and the caller's operation can answer.     *)

\* errors the caller's operation returns: one driver error per classified
\* kind, a driver error of no mapped code, a plain error, a context error
OperationErrors ==
    {PqError(c) : c \in {"23505", "23503", "23502", "23514", "42P01", "42703",
                         "28000", "28P01", "55P03", "53300", "57014", "40001"}}
    \cup {CreateError("operation failed"), CtxError("Canceled")}

\* errors of database.BeginTx (besides the context's own error)
BeginErrors == {PqError("53300"), CreateError("connection refused")}

\* errors of transaction.Rollback
RollbackErrors == {CreateError("sql: transaction has already been committed or rolled back"),
                   PqError("57014")}

\* errors of transaction.Commit
CommitErrors == {CreateError("driver: bad connection"), PqError("40001")}

-----------------------------------------------------------------------------
(* State.                                                                  *)

VARIABLES
    mode,          \* the entry point called
    maxRetriesArg, \* the maxRetries argument of TransactionWithRetry
    maxRetries,    \* maxRetries after validation
    pc,            \* position of the call
    attempt,       \* loop variable of the retry loop
    ctxErr,        \* ctx.Err(): "none" until the context's deadline passes
    err,           \* named result of the transaction function
    recovered,     \* payload of the operation's panic, NoPanic if none
    lastError,     \* lastError of the retry loop
    result,        \* what the entry point returned (once pc = "done")
    began,         \* BeginTx succeeded in this attempt
    commits,       \* Commit calls made in this attempt
    rollbacks,     \* Rollback calls made in this attempt
    opResult,      \* "none", "nil", "err" or "panic": how the operation ended
    opErr,         \* the error the operation returned
    rbErr,         \* the error Rollback returned, Nil if it succeeded or was not called
    cmErr,         \* the error Commit returned, Nil if it succeeded or was not called
    observed,      \* phase check that saw the context done: "none", "start", "preop", "precommit"
    attempts,      \* calls of the transaction function so far
    begins,        \* BeginTx calls so far
    successes,     \* attempts that returned nil
    backoffs,      \* the backoff durations waited, in order
    firstKind,     \* classified kind of the first attempt's error
    allRetryable,  \* every attempt so far failed with a retryable kind
    cancelAt,      \* where the call was when the context's deadline passed
    clsPc,         \* position of a caller of the classifier ("idle" when there is none)
    clsErr,        \* the error that caller holds
    clsDbError,    \* what AnalyzeDatabaseError(clsErr) returned
    clsShouldRetry, \* what ShouldRetryError(clsErr) returned
    clsRetryable,  \* what isRetryableTransactionError(clsErr) returned
    cOp,           \* connection manager: the call made, "Connect" or "Close" ("none": no call)
    cPc,           \* position of that call
    cOpts,         \* the six required settings read from the environment
    cCtx,          \* ctx.Err() of the call's context: "none" until its deadline passes
    cDb,           \* the handle: "nil" (never opened), "open" or "closed"
    cOpens,        \* sql.Open calls that returned a handle
    cPings,        \* PingContext calls
    cCloses,       \* db.Close calls
    cPooled,       \* the pool limits were set on the handle
    cSeen,         \* the check that saw the context done ("none" if no check did)
    cRetDb,        \* the handle the call returned: "nil" or "db"
    cRetErr,       \* the error the call returned
    closeDone,     \* contents of the channel closeDone
    gPc,           \* the goroutine started by Close: "none", "closing", "send", "exited"
    gErr,          \* what db.Close returned in that goroutine

    \* file.UploadMultipleFiles
    fVariant,      \* "plain": the function without a deadline; "context": the one with a 60 s deadline
    fPc,           \* "idle", "f_start", "f_loop", "f_rollback", "done"
    files,         \* the readers passed in (one number per reader)
    fileNames,     \* the names passed in
    uploadedFiles, \* stored names of the files uploaded so far in this call
    fRollback,     \* how many of uploadedFiles the rollback loop has gone through
    fErr,          \* the error the call returns once the rollback is over
    fCtx,          \* the call's own context: "live" or "done"
    fDisk,         \* stored names present in the upload directory
    fUuid,         \* how many UUIDs uuid.New has issued
    fOutcomes,     \* how each UploadFile call of this call ended, in call order
    fDeletes,      \* the names DeleteFile was called with, in call order
    fRet,          \* what the call returned: [isNil, names, err]

    \* scheduler.RunFunctionAtInterval
    sPc,           \* "idle", "s_start", "s_initial", "s_loop", "s_call", "s_called", "returned", "crashed"
    sInterval,     \* the interval argument
    sRunInstant,   \* the runInstant argument
    sShutdown,     \* the signal context is done
    state,         \* the SchedulerState: ExecutionCount, PanicCount, LastExecution, LastError, IsRunning
    sMu,           \* state.mu: "free", "locked" (Lock) or "rlocked" (RLock)
    sCall,         \* the SchedulerState method being run, "none" outside one
    sStep,         \* where that method is: "lock", "body", "unlock"
    sFrom,         \* the place the method was called from
    consecutivePanics, \* the loop's count of consecutive panics
    sRuns,         \* every run of the scheduled function so far: [scheduled, panicked]
    sReason,       \* why the scheduler returned: "none", "invalid", "breaker", "shutdown"

    \* snowflake.NextID
    g,             \* the generator: nodeID, sequence, lastStamp
    gMu,           \* g.mu: "free" or the caller holding it
    nPc,           \* per caller: "off", "idle", "waiting", "read", "spin", "stamp"
    ts,            \* the local ts of the call holding the mutex
    nWrapped,      \* that call found the sequence wrapped to 0
    clock,         \* the clock, in milliseconds since the generator's epoch
    lastID         \* the ID returned last

txVars == <<mode, maxRetriesArg, maxRetries, pc, attempt, ctxErr, err, recovered, lastError,
            result, began, commits, rollbacks, opResult, opErr, rbErr, cmErr, observed, attempts,
            begins, successes, backoffs, firstKind, allRetryable, cancelAt>>

classifierVars == <<clsPc, clsErr, clsDbError, clsShouldRetry, clsRetryable>>

connVars == <<cOp, cPc, cOpts, cCtx, cDb, cOpens, cPings, cCloses, cPooled, cSeen, cRetDb,
              cRetErr, closeDone, gPc, gErr>>

fileVars == <<fVariant, fPc, files, fileNames, uploadedFiles, fRollback, fErr, fCtx, fDisk,
              fUuid, fOutcomes, fDeletes, fRet>>

schedVars == <<sPc, sInterval, sRunInstant, sShutdown, state, sMu, sCall, sStep, sFrom,
               consecutivePanics, sRuns, sReason>>

snowVars == <<g, gMu, nPc, ts, nWrapped, clock, lastID>>

vars == <<txVars, classifierVars, connVars, fileVars, schedVars, snowVars>>

\* what a step of one component leaves alone
outsideTx == <<classifierVars, connVars, fileVars, schedVars, snowVars>>

outsideClassifier == <<txVars, connVars, fileVars, schedVars, snowVars>>

outsideConn == <<txVars, classifierVars, fileVars, schedVars, snowVars>>

outsideFile == <<txVars, classifierVars, connVars, schedVars, snowVars>>

outsideSched == <<txVars, classifierVars, connVars, fileVars, snowVars>>

outsideSnow == <<txVars, classifierVars, connVars, fileVars, schedVars>>

attemptVars == <<err, recovered, began, commits, rollbacks, opResult, opErr, rbErr, cmErr, observed>>

retryVars == <<maxRetries, attempt, lastError, backoffs>>

Modes == {"Transaction", "TransactionWithIsolation", "TransactionWithRetry"}

NoCancel == [pc |-> "", attempt |-> 0, begins |-> 0]

\* classified kind of an attempt's result ("" for nil)
KindOf(e) == AnalyzeDatabaseError(e).ErrorType

\* no call of a transaction entry point is in progress
TxIdle ==
    /\ mode = "Transaction"
    /\ maxRetriesArg = 0
    /\ maxRetries = 0
    /\ pc = "entry"
    /\ attempt = 0
    /\ ctxErr = "none"
    /\ err = Nil
    /\ recovered = NoPanic
    /\ lastError = Nil
    /\ result = Nil
    /\ began = FALSE
    /\ commits = 0
    /\ rollbacks = 0
    /\ opResult = "none"
    /\ opErr = Nil
    /\ rbErr = Nil
    /\ cmErr = Nil
    /\ observed = "none"
    /\ attempts = 0
    /\ begins = 0
    /\ successes = 0
    /\ backoffs = <<>>
    /\ firstKind = ""
    /\ allRetryable = TRUE
    /\ cancelAt = NoCancel

\* nobody is calling the classifier
ClassifierIdle ==
    /\ clsPc = "idle"
    /\ clsErr = Nil
    /\ clsDbError = NilDatabaseError
    /\ clsShouldRetry = FALSE
    /\ clsRetryable = FALSE

NoOptions == [Username |-> <<>>, Password |-> <<>>, Host |-> <<>>, Port |-> <<>>,
              DatabaseName |-> <<>>, SSLMode |-> <<>>]

\* no call of the connection manager is in progress
ConnIdle ==
    /\ cOp = "none"
    /\ cPc = "idle"
    /\ cOpts = NoOptions
    /\ cCtx = "none"
    /\ cDb = "nil"
    /\ cOpens = 0
    /\ cPings = 0
    /\ cCloses = 0
    /\ cPooled = FALSE
    /\ cSeen = "none"
    /\ cRetDb = "nil"
    /\ cRetErr = Nil
    /\ closeDone = NilChannel
    /\ gPc = "none"
    /\ gErr = Nil

\* a []string that is nil, with no error yet
NoReturn == [isNil |-> TRUE, names |-> <<>>, err |-> Nil]

FileIdle ==
    /\ fVariant = "plain"
    /\ fPc = "idle"
    /\ files = <<>>
    /\ fileNames = <<>>
    /\ uploadedFiles = <<>>
    /\ fRollback = 0
    /\ fErr = Nil
    /\ fCtx = "live"
    /\ fDisk = {}
    /\ fUuid = 0
    /\ fOutcomes = <<>>
    /\ fDeletes = <<>>
    /\ fRet = NoReturn

\* NewSchedulerState(); times are counted in runs of the scheduled function
NewSchedulerState ==
    [ExecutionCount |-> 0, PanicCount |-> 0, LastExecution |-> 0, LastError |-> "",
     IsRunning |-> TRUE]

SchedIdle ==
    /\ sPc = "idle"
    /\ sInterval = 0
    /\ sRunInstant = FALSE
    /\ sShutdown = FALSE
    /\ state = NewSchedulerState
    /\ sMu = "free"
    /\ sCall = "none"
    /\ sStep = "lock"
    /\ sFrom = "none"
    /\ consecutivePanics = 0
    /\ sRuns = <<>>
    /\ sReason = "none"

\* the generator's zero lastStamp (Unix millisecond 0) lies before the epoch, hence
\* before every reading of the clock
ZeroStamp == -1

\* no ID returned yet (IDs of the model are not negative)
NoID == -1

\* the goroutines calling NextID
Callers == {"a", "b"}

SnowIdle ==
    /\ g = [nodeID |-> 0, sequence |-> 0, lastStamp |-> ZeroStamp]
    /\ gMu = "free"
    /\ nPc = [c \in Callers |-> "off"]
    /\ ts = 0
    /\ nWrapped = FALSE
    /\ clock = 0
    /\ lastID = NoID

Init ==
    /\ mode \in Modes
    /\ maxRetriesArg \in IF mode = "TransactionWithRetry" THEN -1 .. MaxRetriesBound ELSE {0}
    /\ maxRetries = 0
    /\ pc = "entry"
    /\ attempt = 0
    /\ ctxErr = "none"
    /\ err = Nil
    /\ recovered = NoPanic
    /\ lastError = Nil
    /\ result = Nil
    /\ began = FALSE
    /\ commits = 0
    /\ rollbacks = 0
    /\ opResult = "none"
    /\ opErr = Nil
    /\ rbErr = Nil
    /\ cmErr = Nil
    /\ observed = "none"
    /\ attempts = 0
    /\ begins = 0
    /\ successes = 0
    /\ backoffs = <<>>
    /\ firstKind = ""
    /\ allRetryable = TRUE
    /\ cancelAt = NoCancel
    /\ ClassifierIdle
    /\ ConnIdle
    /\ FileIdle
    /\ SchedIdle
    /\ SnowIdle

-----------------------------------------------------------------------------
(* Steps shared by the entry points.                                       *)

\* the transaction function is called: one more attempt
CallTransaction ==
    /\ pc' = "t_start"
    /\ attempts' = attempts + 1

\* the transaction function returns e (or, when panicking, a panic unwinds
\* through its caller as well)
ReturnFromTransaction(e, panicking) ==
    /\ firstKind' = IF attempts = 1 THEN KindOf(e) ELSE firstKind
    /\ allRetryable' = (allRetryable /\ KindOf(e) \in RetryableKinds)
    /\ successes' = IF e = Nil /\ ~panicking THEN successes + 1 ELSE successes
    /\ IF panicking
       THEN /\ pc' = "done"
            /\ result' = PanicExit(recovered)
            /\ err' = e
       ELSE IF mode = "TransactionWithRetry"
       THEN /\ pc' = "r_after"
            /\ err' = e
            /\ UNCHANGED result
       ELSE /\ pc' = "done"
            /\ err' = e
            /\ result' = e

\* Transaction / TransactionWithIsolation / TransactionWithRetry create the
\* context and call the implementation
Entry ==
    /\ pc = "entry"
    /\ IF mode = "TransactionWithRetry"
       THEN /\ maxRetries' = clampMaxRetries(maxRetriesArg)
            /\ IF loopContinues(0, maxRetries')
               THEN pc' = "r_check" /\ UNCHANGED result
               ELSE /\ pc' = "done"
                    /\ result' = WrapError(lastError, "transaction failed after maximum retries")
            /\ UNCHANGED attempts
       ELSE /\ CallTransaction
            /\ UNCHANGED <<maxRetries, result>>
    /\ UNCHANGED <<mode, maxRetriesArg, attempt, ctxErr, lastError, begins, successes,
                   backoffs, firstKind, allRetryable, cancelAt>>
    /\ UNCHANGED attemptVars
    /\ UNCHANGED outsideTx

\* the context's deadline passes (60 s, or 120 s for the retry sequence)
DeadlinePasses ==
    /\ pc \notin {"entry", "done"}
    /\ ctxErr = "none"
    /\ ctxErr' = "DeadlineExceeded"
    /\ cancelAt' = [pc |-> pc, attempt |-> attempt, begins |-> begins]
    /\ UNCHANGED <<mode, maxRetriesArg, pc, result, attempts, begins, successes, firstKind,
                   allRetryable>>
    /\ UNCHANGED attemptVars
    /\ UNCHANGED retryVars
    /\ UNCHANGED outsideTx

-----------------------------------------------------------------------------
(* transactionWithContext and transactionWithIsolationAndContext.          *)

Isolation == mode = "TransactionWithIsolation"

\* what the steps of the transaction function leave alone
TxFrame ==
    /\ UNCHANGED <<mode, maxRetriesArg, ctxErr, attempts, cancelAt>>
    /\ UNCHANGED retryVars
    /\ UNCHANGED outsideTx

\* select on ctx.Done() before starting: the context is done
CancelledBeforeStart ==
    /\ pc = "t_start"
    /\ ctxErr # "none"
    /\ observed' = "start"
    /\ ReturnFromTransaction(
          WrapError(CtxError(ctxErr),
                    IF Isolation THEN "isolation transaction cancelled before start"
                    ELSE "transaction cancelled before start"), FALSE)
    /\ UNCHANGED <<recovered, began, commits, rollbacks, opResult, opErr, rbErr, cmErr, begins>>
    /\ TxFrame

\* select on ctx.Done() before starting: the context is not done
StartCheckPasses ==
    /\ pc = "t_start"
    /\ ctxErr = "none"
    /\ pc' = "t_begin"
    /\ UNCHANGED <<result, begins, successes, firstKind, allRetryable>>
    /\ UNCHANGED attemptVars
    /\ TxFrame

\* database.BeginTx(ctx, ...) succeeds
BeginSucceeds ==
    /\ pc = "t_begin"
    /\ ctxErr = "none"
    /\ began' = TRUE
    /\ begins' = begins + 1
    /\ pc' = "t_preop"
    /\ UNCHANGED <<err, recovered, commits, rollbacks, opResult, opErr, rbErr, cmErr, observed,
                   result, successes, firstKind, allRetryable>>
    /\ TxFrame

\* database.BeginTx(ctx, ...) fails: with a driver error, or with ctx.Err() when
\* the context is done
BeginFails ==
    /\ pc = "t_begin"
    /\ begins' = begins + 1
    /\ \E e \in BeginErrors \cup (IF ctxErr # "none" THEN {CtxError(ctxErr)} ELSE {}) :
          ReturnFromTransaction(
              WrapError(e, IF Isolation THEN "failed to start transaction with isolation level"
                           ELSE "failed to start transaction"), FALSE)
    /\ UNCHANGED <<recovered, began, commits, rollbacks, opResult, opErr, rbErr, cmErr, observed>>
    /\ TxFrame

\* select on ctx.Done() before executing the operation: the context is done;
\* the function returns, which runs the deferred function with err set
\* variant: the check does not return, the operation is invoked all the same
CancelledBeforeOperation_NoReturn ==
    /\ pc = "t_preop"
    /\ ctxErr # "none"
    /\ observed' = "preop"
    /\ err' = WrapError(CtxError(ctxErr), "transaction cancelled before operation execution")
    /\ opResult' = "nil"
    /\ pc' = "t_defer"
    /\ UNCHANGED <<recovered, began, commits, rollbacks, opErr, rbErr, cmErr, begins,
                   result, successes, firstKind, allRetryable>>
    /\ TxFrame

CancelledBeforeOperation ==
    /\ pc = "t_preop"
    /\ ctxErr # "none"
    /\ observed' = "preop"
    /\ err' = WrapError(CtxError(ctxErr),
                        IF Isolation
                        THEN "isolation transaction cancelled before operation execution"
                        ELSE "transaction cancelled before operation execution")
    /\ pc' = "t_defer"
    /\ UNCHANGED <<recovered, began, commits, rollbacks, opResult, opErr, rbErr, cmErr, begins,
                   result, successes, firstKind, allRetryable>>
    /\ TxFrame

\* err = operation(transaction): the operation returns nil or an error
OperationReturns ==
    /\ pc = "t_preop"
    /\ ctxErr = "none"
    /\ \E e \in OperationErrors \cup {Nil} :
          /\ err' = e
          /\ opErr' = e
          /\ opResult' = IF e = Nil THEN "nil" ELSE "err"
    /\ pc' = "t_defer"
    /\ UNCHANGED <<recovered, began, commits, rollbacks, rbErr, cmErr, observed, begins,
                   result, successes, firstKind, allRetryable>>
    /\ TxFrame

\* the operation panics: err keeps the nil that BeginTx returned
OperationPanics ==
    /\ pc = "t_preop"
    /\ ctxErr = "none"
    /\ \E p \in PanicPayloads : recovered' = p
    /\ opResult' = "panic"
    /\ pc' = "t_defer"
    /\ UNCHANGED <<err, began, commits, rollbacks, opErr, rbErr, cmErr, observed, begins,
                   result, successes, firstKind, allRetryable>>
    /\ TxFrame

\* the deferred function runs: recover, then Rollback or Commit
DeferredCleanup ==
    /\ pc = "t_defer"
    /\ \E rollbackErr \in RollbackErrors \cup {Nil}, commitErr \in CommitErrors \cup {Nil} :
          LET c == IF Isolation
                   THEN deferredCleanupIsolation(recovered, err, ctxErr, rollbackErr, commitErr)
                   ELSE deferredCleanup(recovered, err, ctxErr, rollbackErr, commitErr)
          IN  /\ commits' = commits + c.commits
              /\ rollbacks' = rollbacks + c.rollbacks
              /\ rbErr' = IF c.rollbacks > 0 THEN rollbackErr ELSE Nil
              /\ cmErr' = IF c.commits > 0 THEN commitErr ELSE Nil
              /\ observed' = IF c.sawCancel THEN "precommit" ELSE observed
              /\ ReturnFromTransaction(c.err, c.panicking)
    /\ UNCHANGED <<recovered, began, opResult, opErr, begins>>
    /\ TxFrame

-----------------------------------------------------------------------------
(* transactionWithRetryAndContext.                                         *)

RetryFrame == UNCHANGED <<mode, maxRetriesArg, maxRetries, ctxErr, begins, cancelAt,
                          firstKind, allRetryable>> /\ UNCHANGED outsideTx

\* select on ctx.Done() before an attempt: the context is done
RetryCancelledBeforeAttempt ==
    /\ pc = "r_check"
    /\ ctxErr # "none"
    /\ result' = WrapError(CtxError(ctxErr), "transaction with retry cancelled")
    /\ pc' = "done"
    /\ UNCHANGED <<attempt, lastError, backoffs, attempts, successes>>
    /\ UNCHANGED attemptVars
    /\ RetryFrame

\* the context is not done: the first attempt runs at once, a retry waits first
RetryProceeds ==
    /\ pc = "r_check"
    /\ ctxErr = "none"
    /\ IF attempt > 0
       THEN pc' = "r_backoff" /\ UNCHANGED attempts
       ELSE CallTransaction
    /\ UNCHANGED <<attempt, lastError, backoffs, result, successes>>
    /\ UNCHANGED attemptVars
    /\ RetryFrame

\* select during the backoff: ctx.Done() comes first
BackoffCancelled ==
    /\ pc = "r_backoff"
    /\ ctxErr # "none"
    /\ result' = WrapError(CtxError(ctxErr), "transaction retry cancelled during backoff")
    /\ pc' = "done"
    /\ UNCHANGED <<attempt, lastError, backoffs, attempts, successes>>
    /\ UNCHANGED attemptVars
    /\ RetryFrame

\* variant: the backoff sleeps without watching the context
BackoffElapses_Sleeps ==
    /\ pc = "r_backoff"
    /\ backoffs' = Append(backoffs, backoffDuration(attempt))
    /\ CallTransaction
    /\ UNCHANGED <<attempt, lastError, result, successes>>
    /\ UNCHANGED attemptVars
    /\ RetryFrame

\* select during the backoff: time.After(backoffDuration) comes first
BackoffElapses ==
    /\ pc = "r_backoff"
    /\ ctxErr = "none"
    /\ backoffs' = Append(backoffs, backoffDuration(attempt))
    /\ CallTransaction
    /\ UNCHANGED <<attempt, lastError, result, successes>>
    /\ UNCHANGED attemptVars
    /\ RetryFrame

\* the attempt returned nil
RetrySucceeds ==
    /\ pc = "r_after"
    /\ err = Nil
    /\ result' = Nil
    /\ pc' = "done"
    /\ UNCHANGED <<attempt, lastError, backoffs, attempts, successes>>
    /\ UNCHANGED attemptVars
    /\ RetryFrame

\* the attempt failed with an error that is not retryable
RetryGivesUp ==
    /\ pc = "r_after"
    /\ err # Nil
    /\ ~isRetryableTransactionError(err)
    /\ lastError' = err
    /\ result' = err
    /\ pc' = "done"
    /\ UNCHANGED <<attempt, backoffs, attempts, successes>>
    /\ UNCHANGED attemptVars
    /\ RetryFrame

\* the attempt failed with a retryable error and the loop goes on
RetryAgain ==
    /\ pc = "r_after"
    /\ err # Nil
    /\ isRetryableTransactionError(err)
    /\ loopContinues(attempt + 1, maxRetries)
    /\ lastError' = err
    /\ attempt' = attempt + 1
    /\ pc' = "r_check"
    /\ err' = Nil
    /\ recovered' = NoPanic
    /\ began' = FALSE
    /\ commits' = 0
    /\ rollbacks' = 0
    /\ opResult' = "none"
    /\ opErr' = Nil
    /\ rbErr' = Nil
    /\ cmErr' = Nil
    /\ observed' = "none"
    /\ UNCHANGED <<backoffs, result, attempts, successes>>
    /\ RetryFrame

\* the attempt failed with a retryable error and the loop ends
RetryExhausted ==
    /\ pc = "r_after"
    /\ err # Nil
    /\ isRetryableTransactionError(err)
    /\ ~loopContinues(attempt + 1, maxRetries)
    /\ lastError' = err
    /\ attempt' = attempt + 1
    /\ result' = WrapError(err, "transaction failed after maximum retries")
    /\ pc' = "done"
    /\ UNCHANGED <<backoffs, attempts, successes>>
    /\ UNCHANGED attemptVars
    /\ RetryFrame

-----------------------------------------------------------------------------
Next ==
    \/ Entry
    \/ DeadlinePasses
    \/ CancelledBeforeStart
    \/ StartCheckPasses
    \/ BeginSucceeds
    \/ BeginFails
    \/ CancelledBeforeOperation
    \/ OperationReturns
    \/ OperationPanics
    \/ DeferredCleanup
    \/ RetryCancelledBeforeAttempt
    \/ RetryProceeds
    \/ BackoffCancelled
    \/ BackoffElapses
    \/ RetrySucceeds
    \/ RetryGivesUp
    \/ RetryAgain
    \/ RetryExhausted

Spec == Init /\ [][Next]_vars

-----------------------------------------------------------------------------
(* A caller of the classifier.  It holds one error and asks, in turn,      *)
(* AnalyzeDatabaseError, ShouldRetryError and isRetryableTransactionError  *)
(* about it.  The errors are driver errors of every classified code and of *)
(* two codes the classifier has no case for, with and without detail       *)
(* fields, bare and wrapped by WrapError, and errors that are no driver    *)
(* errors.  No transaction runs meanwhile.                                 *)

Tables == {Spell("users"), Spell("org")}

Words == {Spell("email"), Spell("id")}

\* the sequences of 1 .. MaxWords words
WordSeqs == UNION {[1 .. n -> Words] : n \in 1 .. MaxWords}

\* "<table>_<w1>_..._<wn>_key", PostgreSQL's name of a unique constraint
UniqueConstraintName(table, words) ==
    table \o <<"_">> \o Join(words, <<"_">>) \o Spell("_key")

\* names of that shape, no name, and names of other shapes: "users_key",
\* "users__key", "users", "users_email"
ConstraintNames ==
    {UniqueConstraintName(t, ws) : t \in Tables, ws \in WordSeqs}
    \cup {<<>>, Spell("users") \o Spell("_key"), Spell("users") \o <<"_">> \o Spell("_key"),
          Spell("users"), Spell("users") \o <<"_">> \o Spell("email")}

MappedCodes == {"23505", "23503", "23502", "23514", "42P01", "42703", "28000", "28P01",
                "55P03", "53300", "57014"}

\* serialization_failure and connection_failure: no case of the switch
UnmappedCodes == {"40001", "08006"}

ServerMessages == {Spell("could not serialize access due to concurrent update"),
                   Spell("terminating connection due to administrator command")}

DriverErrors ==
    {DriverError(c, k, tc[1], tc[2], m) :
        c \in MappedCodes \cup UnmappedCodes, k \in ConstraintNames,
        tc \in {<<(<<>>), (<<>>)>>, <<Spell("users"), Spell("first_name")>>},
        m \in ServerMessages}

OtherErrors ==
    {CreateError("operation failed"), CreateError("connection refused"),
     CreateError("driver: bad connection"), CreateError("Connection reset by peer"),
     CtxError("Canceled"), CtxError("DeadlineExceeded"),
     WrapError(CtxError("DeadlineExceeded"), "transaction cancelled before commit"),
     WrapError(CtxError("Canceled"), "transaction with retry cancelled")}

ClassifierInputs ==
    DriverErrors \cup {WrapError(e, "rollback failed") : e \in DriverErrors}
    \cup OtherErrors \cup {Nil}

ClassifyInit ==
    /\ TxIdle
    /\ ConnIdle
    /\ FileIdle
    /\ SchedIdle
    /\ SnowIdle
    /\ clsPc = "start"
    /\ clsErr \in ClassifierInputs
    /\ clsDbError = NilDatabaseError
    /\ clsShouldRetry = FALSE
    /\ clsRetryable = FALSE

\* dbError := AnalyzeDatabaseError(err)
CallAnalyzeDatabaseError ==
    /\ clsPc = "start"
    /\ clsDbError' = AnalyzeDatabaseError(clsErr)
    /\ clsPc' = "analyzed"
    /\ UNCHANGED <<clsErr, clsShouldRetry, clsRetryable>>
    /\ UNCHANGED outsideClassifier

\* ShouldRetryError(err)
CallShouldRetryError ==
    /\ clsPc = "analyzed"
    /\ clsShouldRetry' = ShouldRetryError(clsErr)
    /\ clsPc' = "asked"
    /\ UNCHANGED <<clsErr, clsDbError, clsRetryable>>
    /\ UNCHANGED outsideClassifier

\* isRetryableTransactionError(err), the decision of the retry loop
CallIsRetryableTransactionError ==
    /\ clsPc = "asked"
    /\ clsRetryable' = isRetryableTransactionError(clsErr)
    /\ clsPc' = "done"
    /\ UNCHANGED <<clsErr, clsDbError, clsShouldRetry>>
    /\ UNCHANGED outsideClassifier

ClassifyNext ==
    \/ CallAnalyzeDatabaseError
    \/ CallShouldRetryError
    \/ CallIsRetryableTransactionError

ClassifySpec == ClassifyInit /\ [][ClassifyNext]_vars

-----------------------------------------------------------------------------
(* Connection manager: one call of ConnectToDatabase or of CloseDatabase.  *)
(* The environment gives the six settings, answers sql.Open, PingContext   *)
(* and db.Close, and decides when the deadline of the call's context       *)
(* passes.  CloseDatabase starts a goroutine that calls db.Close and sends *)
(* the result on closeDone.                                                *)

\* values of a setting: unset, blank, set, set with blanks around
SettingValues(name) == {<<>>, <<" ", "\t">>, Spell(name), <<" ">> \o Spell(name) \o <<" ">>}

OptionSets ==
    {[Username |-> u, Password |-> p, Host |-> h, Port |-> Spell("5432"),
      DatabaseName |-> d, SSLMode |-> s] :
        u \in SettingValues("app"), p \in SettingValues("secret"),
        h \in SettingValues("localhost"), d \in SettingValues("postgres"),
        s \in SettingValues("disable")}
    \cup {[Username |-> Spell("app"), Password |-> Spell("secret"), Host |-> Spell("localhost"),
           Port |-> v, DatabaseName |-> Spell("postgres"), SSLMode |-> Spell("disable")] :
            v \in {<<>>, <<" ">>}}

\* errors of sql.Open, of db.PingContext and of db.Close
OpenErrors == {CreateError("operation failed")}

PingErrors == {CreateError("connection refused"), CtxError("DeadlineExceeded")}

CloseErrors == {CreateError("driver: bad connection")}

ConnInit ==
    /\ TxIdle
    /\ ClassifierIdle
    /\ FileIdle
    /\ SchedIdle
    /\ SnowIdle
    /\ cOp \in {"Connect", "Close"}
    /\ cPc = IF cOp = "Connect" THEN "c_start" ELSE "x_start"
    /\ cOpts \in IF cOp = "Connect" THEN OptionSets ELSE {NoOptions}
    /\ cCtx = "none"
    /\ cDb = IF cOp = "Connect" THEN "nil" ELSE "open"
    /\ cOpens = 0
    /\ cPings = 0
    /\ cCloses = 0
    /\ cPooled = FALSE
    /\ cSeen = "none"
    /\ cRetDb = "nil"
    /\ cRetErr = Nil
    /\ closeDone = NilChannel
    /\ gPc = "none"
    /\ gErr = Nil

\* the deadline of the call's context passes
ConnDeadlinePasses ==
    /\ cPc \notin {"idle", "done"}
    /\ cCtx = "none"
    /\ cCtx' = "DeadlineExceeded"
    /\ UNCHANGED <<cOp, cPc, cOpts, cDb, cOpens, cPings, cCloses, cPooled, cSeen, cRetDb,
                   cRetErr, closeDone, gPc, gErr>>
    /\ UNCHANGED outsideConn

ConnFrame == UNCHANGED <<cOp, cOpts, cCtx, closeDone, gPc, gErr>> /\ UNCHANGED outsideConn

\* return nil, e; closeDb tells whether db.Close() is called before
ConnectReturnsError(e, seen, closeDb) ==
    /\ cRetDb' = "nil"
    /\ cRetErr' = e
    /\ cSeen' = seen
    /\ cDb' = IF closeDb THEN "closed" ELSE cDb
    /\ cCloses' = IF closeDb THEN cCloses + 1 ELSE cCloses
    /\ cPc' = "done"

ConnectCancelledBeforeStart ==
    /\ cPc = "c_start"
    /\ cCtx # "none"
    /\ ConnectReturnsError(WrapError(CtxError(cCtx), "database connection cancelled before start"),
                           "start", FALSE)
    /\ UNCHANGED <<cOpens, cPings, cPooled>>
    /\ ConnFrame

ConnectValidationFails ==
    /\ cPc = "c_start"
    /\ cCtx = "none"
    /\ validateDatabaseOptions(cOpts) # Nil
    /\ ConnectReturnsError(validateDatabaseOptions(cOpts), cSeen, FALSE)
    /\ UNCHANGED <<cOpens, cPings, cPooled>>
    /\ ConnFrame

ConnectValidationPasses ==
    /\ cPc = "c_start"
    /\ cCtx = "none"
    /\ validateDatabaseOptions(cOpts) = Nil
    /\ cPc' = "c_validated"
    /\ UNCHANGED <<cDb, cOpens, cPings, cCloses, cPooled, cSeen, cRetDb, cRetErr>>
    /\ ConnFrame

ConnectCancelledAfterValidation ==
    /\ cPc = "c_validated"
    /\ cCtx # "none"
    /\ ConnectReturnsError(WrapError(CtxError(cCtx),
                                     "database connection cancelled after validation"),
                           "validation", FALSE)
    /\ UNCHANGED <<cOpens, cPings, cPooled>>
    /\ ConnFrame

ConnectOpenFails ==
    /\ cPc = "c_validated"
    /\ cCtx = "none"
    /\ \E e \in OpenErrors :
          ConnectReturnsError(WrapError(e, "unable to open database connection"), cSeen, FALSE)
    /\ UNCHANGED <<cOpens, cPings, cPooled>>
    /\ ConnFrame

ConnectOpens ==
    /\ cPc = "c_validated"
    /\ cCtx = "none"
    /\ cDb' = "open"
    /\ cOpens' = cOpens + 1
    /\ cPc' = "c_opened"
    /\ UNCHANGED <<cPings, cCloses, cPooled, cSeen, cRetDb, cRetErr>>
    /\ ConnFrame

ConnectCancelledAfterOpen ==
    /\ cPc = "c_opened"
    /\ cCtx # "none"
    /\ ConnectReturnsError(WrapError(CtxError(cCtx), "database connection cancelled after opening"),
                           "open", TRUE)
    /\ UNCHANGED <<cOpens, cPings, cPooled>>
    /\ ConnFrame

ConnectConfiguresPool ==
    /\ cPc = "c_opened"
    /\ cCtx = "none"
    /\ cPooled' = TRUE
    /\ cPc' = "c_pooled"
    /\ UNCHANGED <<cDb, cOpens, cPings, cCloses, cSeen, cRetDb, cRetErr>>
    /\ ConnFrame

ConnectCancelledAfterPool ==
    /\ cPc = "c_pooled"
    /\ cCtx # "none"
    /\ ConnectReturnsError(WrapError(CtxError(cCtx),
                                     "database connection cancelled after pool configuration"),
                           "pool", TRUE)
    /\ UNCHANGED <<cOpens, cPings, cPooled>>
    /\ ConnFrame

\* db.PingContext(pingCtx) is called
ConnectPings ==
    /\ cPc = "c_pooled"
    /\ cCtx = "none"
    /\ cPings' = cPings + 1
    /\ cPc' = "c_ping"
    /\ UNCHANGED <<cDb, cOpens, cCloses, cPooled, cSeen, cRetDb, cRetErr>>
    /\ ConnFrame

\* PingContext returns an error: the context's own once it is done
ConnectPingFails ==
    /\ cPc = "c_ping"
    /\ \E e \in IF cCtx # "none" THEN {CtxError(cCtx)} ELSE PingErrors :
          ConnectReturnsError(WrapError(e, "unable to connect to the database"), cSeen, TRUE)
    /\ UNCHANGED <<cOpens, cPings, cPooled>>
    /\ ConnFrame

ConnectPingSucceeds ==
    /\ cPc = "c_ping"
    /\ cCtx = "none"
    /\ cPc' = "c_pinged"
    /\ UNCHANGED <<cDb, cOpens, cPings, cCloses, cPooled, cSeen, cRetDb, cRetErr>>
    /\ ConnFrame

\* variant: the handle is not closed on this path
ConnectCancelledAfterPing_NoClose ==
    /\ cPc = "c_pinged"
    /\ cCtx # "none"
    /\ ConnectReturnsError(WrapError(CtxError(cCtx),
                                     "database connection cancelled after successful ping"),
                           "ping", FALSE)
    /\ UNCHANGED <<cOpens, cPings, cPooled>>
    /\ ConnFrame

ConnectCancelledAfterPing ==
    /\ cPc = "c_pinged"
    /\ cCtx # "none"
    /\ ConnectReturnsError(WrapError(CtxError(cCtx),
                                     "database connection cancelled after successful ping"),
                           "ping", TRUE)
    /\ UNCHANGED <<cOpens, cPings, cPooled>>
    /\ ConnFrame

\* return db, nil
ConnectSucceeds ==
    /\ cPc = "c_pinged"
    /\ cCtx = "none"
    /\ cRetDb' = "db"
    /\ cRetErr' = Nil
    /\ cPc' = "done"
    /\ UNCHANGED <<cDb, cOpens, cPings, cCloses, cPooled, cSeen>>
    /\ ConnFrame

CloseFrame == UNCHANGED <<cOp, cOpts, cCtx, cOpens, cPings, cPooled, cRetDb>> /\ UNCHANGED outsideConn

CloseCancelledBeforeStart ==
    /\ cPc = "x_start"
    /\ cCtx # "none"
    /\ cRetErr' = WrapError(CtxError(cCtx), "database close cancelled before start")
    /\ cSeen' = "start"
    /\ cPc' = "done"
    /\ UNCHANGED <<cDb, cCloses, closeDone, gPc, gErr>>
    /\ CloseFrame

\* closeDone is made and the goroutine started
CloseStartsGoroutine ==
    /\ cPc = "x_start"
    /\ cCtx = "none"
    /\ closeDone' = makeCloseDone
    /\ gPc' = "closing"
    /\ cPc' = "x_wait"
    /\ UNCHANGED <<cDb, cCloses, cSeen, cRetErr, gErr>>
    /\ CloseFrame

\* the goroutine: db.Close() returns
GoroutineCloses ==
    /\ gPc = "closing"
    /\ cDb' = "closed"
    /\ cCloses' = cCloses + 1
    /\ gErr' \in CloseErrors \cup {Nil}
    /\ gPc' = "send"
    /\ UNCHANGED <<cPc, cSeen, cRetErr, closeDone>>
    /\ CloseFrame

\* what Close returns for the value received from closeDone
closeResult(e) == IF e # Nil THEN WrapError(e, "failed to close database connection") ELSE Nil

\* the goroutine: closeDone <- result.  With a buffer the value is stored;
\* without one the send needs the caller to be receiving and hands it over
GoroutineSends ==
    /\ gPc = "send"
    /\ IF closeDone.cap = 0
       THEN /\ cPc = "x_wait"
            /\ cRetErr' = closeResult(gErr)
            /\ cPc' = "done"
            /\ UNCHANGED closeDone
       ELSE /\ Len(closeDone.buf) < closeDone.cap
            /\ closeDone' = [closeDone EXCEPT !.buf = Append(@, gErr)]
            /\ UNCHANGED <<cPc, cRetErr>>
    /\ gPc' = "exited"
    /\ UNCHANGED <<cDb, cCloses, cSeen, gErr>>
    /\ CloseFrame

\* select: case <-ctx.Done()
CloseTimesOut ==
    /\ cPc = "x_wait"
    /\ cCtx # "none"
    /\ cRetErr' = WrapError(CtxError(cCtx), "database close cancelled")
    /\ cSeen' = "wait"
    /\ cPc' = "done"
    /\ UNCHANGED <<cDb, cCloses, closeDone, gPc, gErr>>
    /\ CloseFrame

\* select: case err := <-closeDone
CloseReceives ==
    /\ cPc = "x_wait"
    /\ closeDone.buf # <<>>
    /\ cRetErr' = closeResult(Head(closeDone.buf))
    /\ closeDone' = [closeDone EXCEPT !.buf = Tail(@)]
    /\ cPc' = "done"
    /\ UNCHANGED <<cDb, cCloses, cSeen, gPc, gErr>>
    /\ CloseFrame

ConnNext ==
    \/ ConnDeadlinePasses
    \/ ConnectCancelledBeforeStart
    \/ ConnectValidationFails
    \/ ConnectValidationPasses
    \/ ConnectCancelledAfterValidation
    \/ ConnectOpenFails
    \/ ConnectOpens
    \/ ConnectCancelledAfterOpen
    \/ ConnectConfiguresPool
    \/ ConnectCancelledAfterPool
    \/ ConnectPings
    \/ ConnectPingFails
    \/ ConnectPingSucceeds
    \/ ConnectCancelledAfterPing
    \/ ConnectSucceeds
    \/ CloseCancelledBeforeStart
    \/ CloseStartsGoroutine
    \/ GoroutineCloses
    \/ GoroutineSends
    \/ CloseTimesOut
    \/ CloseReceives

ConnSpec == ConnInit /\ [][ConnNext]_vars

\* the Go scheduler keeps running the goroutine that Close started
ConnFairSpec ==
    ConnSpec /\ WF_vars(GoroutineCloses) /\ WF_vars(GoroutineSends)

-----------------------------------------------------------------------------
(* Batch upload: file.UploadMultipleFiles, in its two forms.               *)

\* most files one call is given
MaxFiles == 3

\* names a caller passes
FileNameSet == {"Photo.png", "notes.txt"}

\* the ways one UploadFile call ends
UploadOutcomes == {"ok", "mkdir_fails", "convert_fails", "create_fails", "copy_fails"}

\* the stored name: the kebab-cased base of the input name, a fresh UUID, the extension
uniqueFilename(fileName, id) == [of |-> fileName, uuid |-> id]

\* UploadFile(file, fileName, uploadDirectory, convertToWebP): the name and error it
\* returns, the directory afterwards and the UUIDs issued so far. The UUID is drawn
\* once the directory exists and the conversion is over; a failed copy leaves the file
\* it created behind.
UploadFile(disk, uuids, fileName, outcome) ==
    LET name == uniqueFilename(fileName, uuids + 1)
    IN  CASE outcome = "mkdir_fails" ->
               [name |-> <<>>, disk |-> disk, uuids |-> uuids,
                err |-> WrapError(CreateError("mkdir: permission denied"),
                                  "failed to create upload directory")]
          [] outcome = "convert_fails" ->
               [name |-> <<>>, disk |-> disk, uuids |-> uuids,
                err |-> CreateError("conversion failed")]
          [] outcome = "create_fails" ->
               [name |-> <<>>, disk |-> disk, uuids |-> uuids + 1,
                err |-> WrapError(CreateError("open: permission denied"),
                                  "failed to create destination file")]
          [] outcome = "copy_fails" ->
               [name |-> <<>>, disk |-> disk \cup {name}, uuids |-> uuids + 1,
                err |-> WrapError(CreateError("write: no space left on device"),
                                  "failed to copy file content to destination")]
          [] outcome = "ok" ->
               [name |-> <<name>>, disk |-> disk \cup {name}, uuids |-> uuids + 1,
                err |-> Nil]

\* DeleteFile(filename, uploadDirectory): os.Remove and the error it is wrapped into
DeleteFile(disk, filename, removes) ==
    IF filename \notin disk
    THEN [disk |-> disk,
          err |-> WrapError(CreateError("remove: no such file or directory"), "file not found")]
    ELSE IF removes
         THEN [disk |-> disk \ {filename}, err |-> Nil]
         ELSE [disk |-> disk,
               err |-> WrapError(CreateError("remove: permission denied"),
                                 "failed to delete file")]

\* every sequence over S of length 0..n
SeqsUpTo(S, n) == UNION {[1..k -> S] : k \in 0..n}

FileInit ==
    /\ TxIdle
    /\ ClassifierIdle
    /\ ConnIdle
    /\ SchedIdle
    /\ SnowIdle
    /\ fVariant \in {"plain", "context"}
    /\ fPc = "f_start"
    /\ \E n \in 0..MaxFiles : files = [i \in 1..n |-> i]
    /\ fileNames \in SeqsUpTo(FileNameSet, MaxFiles)
    /\ uploadedFiles = <<>>
    /\ fRollback = 0
    /\ fErr = Nil
    /\ fCtx = "live"
    /\ fDisk = {}
    /\ fUuid = 0
    /\ fOutcomes = <<>>
    /\ fDeletes = <<>>
    /\ fRet = NoReturn

\* the 60 s of context.WithTimeout run out while the call is at work
FileDeadlinePasses ==
    /\ fVariant = "context"
    /\ fPc \in {"f_start", "f_loop", "f_rollback"}
    /\ fCtx = "live"
    /\ fCtx' = "done"
    /\ UNCHANGED <<fVariant, fPc, files, fileNames, uploadedFiles, fRollback, fErr, fDisk,
                   fUuid, fOutcomes, fDeletes, fRet>>
    /\ UNCHANGED outsideFile

\* if len(files) != len(fileNames) { return nil, error }
UploadMismatch ==
    /\ fPc = "f_start"
    /\ Len(files) # Len(fileNames)
    /\ fPc' = "done"
    /\ fRet' = [isNil |-> TRUE, names |-> <<>>,
                err |-> CreateError("Number of files and filenames mismatch")]
    /\ UNCHANGED <<fVariant, files, fileNames, uploadedFiles, fRollback, fErr, fCtx, fDisk,
                   fUuid, fOutcomes, fDeletes>>
    /\ UNCHANGED outsideFile

\* uploadedFiles := make([]string, 0, len(files))
UploadStarts ==
    /\ fPc = "f_start"
    /\ Len(files) = Len(fileNames)
    /\ fPc' = "f_loop"
    /\ uploadedFiles' = <<>>
    /\ UNCHANGED <<fVariant, files, fileNames, fRollback, fErr, fCtx, fDisk, fUuid,
                   fOutcomes, fDeletes, fRet>>
    /\ UNCHANGED outsideFile

\* the loop has a file left, and the select before the upload takes its default case
UploadTurn ==
    /\ fPc = "f_loop"
    /\ Len(uploadedFiles) < Len(files)
    /\ fVariant = "context" => fCtx = "live"

\* case <-ctx.Done(): rollbackUploads(...); return nil, WrapError(ctx.Err(), ...)
UploadCancelled ==
    /\ fPc = "f_loop"
    /\ Len(uploadedFiles) < Len(files)
    /\ fVariant = "context"
    /\ fCtx = "done"
    /\ fPc' = "f_rollback"
    /\ fRollback' = 0
    /\ fErr' = WrapError(CtxError("DeadlineExceeded"), "batch upload cancelled")
    /\ UNCHANGED <<fVariant, files, fileNames, uploadedFiles, fCtx, fDisk, fUuid, fOutcomes,
                   fDeletes, fRet>>
    /\ UNCHANGED outsideFile

\* UploadFile returned a name: uploadedFiles = append(uploadedFiles, uniqueFilename)
UploadSucceeds ==
    /\ UploadTurn
    /\ LET r == UploadFile(fDisk, fUuid, fileNames[Len(uploadedFiles) + 1], "ok")
       IN  /\ uploadedFiles' = uploadedFiles \o r.name
           /\ fDisk' = r.disk
           /\ fUuid' = r.uuids
    /\ fOutcomes' = Append(fOutcomes, "ok")
    /\ UNCHANGED <<fVariant, fPc, files, fileNames, fRollback, fErr, fCtx, fDeletes, fRet>>
    /\ UNCHANGED outsideFile

\* UploadFile returned an error, and the call returns it without a rollback
UploadFails_NoRollback ==
    /\ UploadTurn
    /\ \E outcome \in UploadOutcomes \ {"ok"} :
          LET r == UploadFile(fDisk, fUuid, fileNames[Len(uploadedFiles) + 1], outcome)
          IN  /\ fRet' = [isNil |-> TRUE, names |-> <<>>,
                          err |-> WrapError(r.err, "failed to upload file")]
              /\ fDisk' = r.disk
              /\ fUuid' = r.uuids
              /\ fOutcomes' = Append(fOutcomes, outcome)
    /\ fPc' = "done"
    /\ UNCHANGED <<fVariant, files, fileNames, uploadedFiles, fRollback, fErr, fCtx, fDeletes>>
    /\ UNCHANGED outsideFile

\* UploadFile returned an error: the rollback loop starts; the error returned at its
\* end is fmt.Errorf("failed to upload file %s: %w", fileNames[i], err)
UploadFails ==
    /\ UploadTurn
    /\ \E outcome \in UploadOutcomes \ {"ok"} :
          LET r == UploadFile(fDisk, fUuid, fileNames[Len(uploadedFiles) + 1], outcome)
          IN  /\ fErr' = WrapError(r.err, "failed to upload file")
              /\ fDisk' = r.disk
              /\ fUuid' = r.uuids
              /\ fOutcomes' = Append(fOutcomes, outcome)
    /\ fPc' = "f_rollback"
    /\ fRollback' = 0
    /\ UNCHANGED <<fVariant, files, fileNames, uploadedFiles, fCtx, fDeletes, fRet>>
    /\ UNCHANGED outsideFile

\* for _, filename := range uploadedFiles { DeleteFile(...) }: a failed deletion is logged
RollbackDeletes ==
    /\ fPc = "f_rollback"
    /\ fRollback < Len(uploadedFiles)
    /\ \E removes \in BOOLEAN :
          fDisk' = DeleteFile(fDisk, uploadedFiles[fRollback + 1], removes).disk
    /\ fDeletes' = Append(fDeletes, uploadedFiles[fRollback + 1])
    /\ fRollback' = fRollback + 1
    /\ UNCHANGED <<fVariant, fPc, files, fileNames, uploadedFiles, fErr, fCtx, fUuid,
                   fOutcomes, fRet>>
    /\ UNCHANGED outsideFile

\* return nil, error: the rollback loop is over
RollbackReturns ==
    /\ fPc = "f_rollback"
    /\ fRollback = Len(uploadedFiles)
    /\ fPc' = "done"
    /\ fRet' = [isNil |-> TRUE, names |-> <<>>, err |-> fErr]
    /\ UNCHANGED <<fVariant, files, fileNames, uploadedFiles, fRollback, fErr, fCtx, fDisk,
                   fUuid, fOutcomes, fDeletes>>
    /\ UNCHANGED outsideFile

\* return uploadedFiles, nil: the loop went through every file
UploadReturns ==
    /\ fPc = "f_loop"
    /\ Len(uploadedFiles) = Len(files)
    /\ fPc' = "done"
    /\ fRet' = [isNil |-> FALSE, names |-> uploadedFiles, err |-> Nil]
    /\ UNCHANGED <<fVariant, files, fileNames, uploadedFiles, fRollback, fErr, fCtx, fDisk,
                   fUuid, fOutcomes, fDeletes>>
    /\ UNCHANGED outsideFile

FileNext ==
    \/ FileDeadlinePasses
    \/ UploadMismatch
    \/ UploadStarts
    \/ UploadCancelled
    \/ UploadSucceeds
    \/ UploadFails
    \/ RollbackDeletes
    \/ RollbackReturns
    \/ UploadReturns

FileSpec == FileInit /\ [][FileNext]_vars

-----------------------------------------------------------------------------
(* Scheduler: scheduler.RunFunctionAtInterval.                             *)

\* most runs of the scheduled function in one behaviour
MaxRuns == 10

\* MaxPanicRecovery of LoadConfig
DefaultMaxPanicRecovery == 3

\* the loop logs the status when ExecutionCount is a multiple of this
StatusEvery == 10

\* LoadConfig(interval, runInstant)
LoadConfig(interval, runInstant) ==
    [Interval |-> interval, RunInstant |-> runInstant, EnableGracefulShutdown |-> TRUE,
     MaxPanicRecovery |-> DefaultMaxPanicRecovery]

\* validateInterval(interval) returns nil
validateInterval(interval) == interval > 0

\* runWithRecovery without its deferred recover(): the panic goes on to the caller
runWithRecovery_NoRecover(outcome) ==
    [success |-> outcome = "returns", panic |-> outcome = "panics"]

\* runWithRecovery(functionToRun, operationName): success is true after a return; the
\* deferred function recovers a panic and leaves success false
runWithRecovery(outcome) ==
    LET recovers == outcome = "panics"
    IN  [success |-> outcome = "returns", panic |-> outcome = "panics" /\ ~recovers]

\* RecordPanic that counts the panic as an execution
RecordPanic_CountsExecution(st, now, message) ==
    [st EXCEPT !.ExecutionCount = @ + 1, !.LastError = message]

\* the body of RecordExecution, under mu.Lock
RecordExecution(st, now) ==
    [st EXCEPT !.ExecutionCount = @ + 1, !.LastExecution = now]

\* the body of RecordPanic, under mu.Lock
RecordPanic(st, now, message) ==
    [st EXCEPT !.PanicCount = @ + 1, !.LastError = message]

\* the body of Stop, under mu.Lock
Stop(st) == [st EXCEPT !.IsRunning = FALSE]

\* the method a run's result makes the scheduler call
RecordCall(success) == IF success THEN "RecordExecution" ELSE "RecordPanic"

SchedInit ==
    /\ TxIdle
    /\ ClassifierIdle
    /\ ConnIdle
    /\ FileIdle
    /\ SnowIdle
    /\ sPc = "s_start"
    /\ sInterval \in {0, 1}
    /\ sRunInstant \in BOOLEAN
    /\ sShutdown = FALSE
    /\ state = NewSchedulerState
    /\ sMu = "free"
    /\ sCall = "none"
    /\ sStep = "lock"
    /\ sFrom = "none"
    /\ consecutivePanics = 0
    /\ sRuns = <<>>
    /\ sReason = "none"

config == LoadConfig(sInterval, sRunInstant)

\* SIGINT or SIGTERM arrives: the context of signal.NotifyContext is done
ShutdownSignal ==
    /\ sPc \notin {"idle", "returned", "crashed"}
    /\ ~sShutdown
    /\ sShutdown' = TRUE
    /\ UNCHANGED <<sPc, sInterval, sRunInstant, state, sMu, sCall, sStep, sFrom,
                   consecutivePanics, sRuns, sReason>>
    /\ UNCHANGED outsideSched

\* if err := validateInterval(interval); err != nil { return }
IntervalRejected ==
    /\ sPc = "s_start"
    /\ ~validateInterval(sInterval)
    /\ sPc' = "returned"
    /\ sReason' = "invalid"
    /\ UNCHANGED <<sInterval, sRunInstant, sShutdown, state, sMu, sCall, sStep, sFrom,
                   consecutivePanics, sRuns>>
    /\ UNCHANGED outsideSched

\* config, state and the context are set up
SchedulerStarts ==
    /\ sPc = "s_start"
    /\ validateInterval(sInterval)
    /\ state' = NewSchedulerState
    /\ sPc' = IF config.RunInstant THEN "s_initial" ELSE "s_loop"
    /\ consecutivePanics' = 0
    /\ UNCHANGED <<sInterval, sRunInstant, sShutdown, sMu, sCall, sStep, sFrom, sRuns, sReason>>
    /\ UNCHANGED outsideSched

\* runWithRecovery(functionToRun, ...) and the SchedulerState method its result selects
RunsFunction(scheduled, from) ==
    /\ Len(sRuns) < MaxRuns
    /\ \E outcome \in {"returns", "panics"} :
          LET r == runWithRecovery(outcome)
          IN  /\ sRuns' = Append(sRuns, [scheduled |-> scheduled,
                                         panicked |-> outcome = "panics"])
              /\ IF r.panic
                 THEN /\ sPc' = "crashed"
                      /\ UNCHANGED <<sCall, sStep, sFrom>>
                 ELSE /\ sPc' = "s_call"
                      /\ sCall' = RecordCall(r.success)
                      /\ sStep' = "lock"
                      /\ sFrom' = from
    /\ UNCHANGED <<sInterval, sRunInstant, sShutdown, state, sMu, consecutivePanics, sReason>>
    /\ UNCHANGED outsideSched

\* if runInstant { runWithRecovery(functionToRun, "initial execution") ... }
InitialExecution ==
    /\ sPc = "s_initial"
    /\ RunsFunction(FALSE, "initial")

\* case <-ticker.C: runWithRecovery(functionToRun, "scheduled execution")
ScheduledExecution ==
    /\ sPc = "s_loop"
    /\ RunsFunction(TRUE, "scheduled")

\* case <-ctx.Done(): state.Stop()
ShutdownReceived ==
    /\ sPc = "s_loop"
    /\ sShutdown
    /\ sPc' = "s_call"
    /\ sCall' = "Stop"
    /\ sStep' = "lock"
    /\ sFrom' = "shutdown"
    /\ UNCHANGED <<sInterval, sRunInstant, sShutdown, state, sMu, consecutivePanics, sRuns,
                   sReason>>
    /\ UNCHANGED outsideSched

\* s.mu.Lock() of RecordExecution, RecordPanic and Stop; s.mu.RLock() of GetStatus
StateLocks ==
    /\ sPc = "s_call"
    /\ sStep = "lock"
    /\ sMu = "free"
    /\ sMu' = IF sCall = "GetStatus" THEN "rlocked" ELSE "locked"
    /\ sStep' = "body"
    /\ UNCHANGED <<sPc, sInterval, sRunInstant, sShutdown, state, sCall, sFrom,
                   consecutivePanics, sRuns, sReason>>
    /\ UNCHANGED outsideSched

\* the body of the method: the fields it assigns (GetStatus only reads)
StateBody ==
    /\ sPc = "s_call"
    /\ sStep = "body"
    /\ state' = CASE sCall = "RecordExecution" -> RecordExecution(state, Len(sRuns))
                  [] sCall = "RecordPanic" ->
                       RecordPanic(state, Len(sRuns),
                                   IF sFrom = "initial" THEN "panic during initial execution"
                                   ELSE "panic during scheduled execution")
                  [] sCall = "Stop" -> Stop(state)
                  [] sCall = "GetStatus" -> state
    /\ sStep' = "unlock"
    /\ UNCHANGED <<sPc, sInterval, sRunInstant, sShutdown, sMu, sCall, sFrom,
                   consecutivePanics, sRuns, sReason>>
    /\ UNCHANGED outsideSched

\* defer s.mu.Unlock() / defer s.mu.RUnlock(): the method returns
StateUnlocks ==
    /\ sPc = "s_call"
    /\ sStep = "unlock"
    /\ sMu' = "free"
    /\ sPc' = "s_called"
    /\ UNCHANGED <<sInterval, sRunInstant, sShutdown, state, sCall, sStep, sFrom,
                   consecutivePanics, sRuns, sReason>>
    /\ UNCHANGED outsideSched

\* after the initial execution was recorded: the ticker is made, consecutivePanics := 0
AfterInitialExecution ==
    /\ sPc = "s_called"
    /\ sFrom = "initial"
    /\ sPc' = "s_loop"
    /\ sCall' = "none"
    /\ sFrom' = "none"
    /\ consecutivePanics' = 0
    /\ UNCHANGED <<sInterval, sRunInstant, sShutdown, state, sMu, sStep, sRuns, sReason>>
    /\ UNCHANGED outsideSched

\* after RecordExecution in the loop: consecutivePanics = 0, and GetStatus on every
\* tenth execution
AfterSuccess ==
    /\ sPc = "s_called"
    /\ sFrom = "scheduled"
    /\ sCall = "RecordExecution"
    /\ consecutivePanics' = 0
    /\ IF state.ExecutionCount % StatusEvery = 0
       THEN /\ sPc' = "s_call"
            /\ sCall' = "GetStatus"
            /\ sStep' = "lock"
            /\ sFrom' = "status"
       ELSE /\ sPc' = "s_loop"
            /\ sCall' = "none"
            /\ sFrom' = "none"
            /\ UNCHANGED sStep
    /\ UNCHANGED <<sInterval, sRunInstant, sShutdown, state, sMu, sRuns, sReason>>
    /\ UNCHANGED outsideSched

\* after RecordPanic in the loop: consecutivePanics++, and state.Stop() when the
\* circuit breaker trips
AfterPanic ==
    /\ sPc = "s_called"
    /\ sFrom = "scheduled"
    /\ sCall = "RecordPanic"
    /\ consecutivePanics' = consecutivePanics + 1
    /\ IF config.MaxPanicRecovery > 0 /\ consecutivePanics' >= config.MaxPanicRecovery
       THEN /\ sPc' = "s_call"
            /\ sCall' = "Stop"
            /\ sStep' = "lock"
            /\ sFrom' = "breaker"
       ELSE /\ sPc' = "s_loop"
            /\ sCall' = "none"
            /\ sFrom' = "none"
            /\ UNCHANGED sStep
    /\ UNCHANGED <<sInterval, sRunInstant, sShutdown, state, sMu, sRuns, sReason>>
    /\ UNCHANGED outsideSched

\* the periodic status was logged: back to the select
StatusLogged ==
    /\ sPc = "s_called"
    /\ sFrom = "status"
    /\ sPc' = "s_loop"
    /\ sCall' = "none"
    /\ sFrom' = "none"
    /\ UNCHANGED <<sInterval, sRunInstant, sShutdown, state, sMu, sStep, consecutivePanics,
                   sRuns, sReason>>
    /\ UNCHANGED outsideSched

\* state.Stop(); return: the circuit breaker ends the scheduler
BreakerReturns ==
    /\ sPc = "s_called"
    /\ sFrom = "breaker"
    /\ sPc' = "returned"
    /\ sReason' = "breaker"
    /\ sCall' = "none"
    /\ UNCHANGED <<sInterval, sRunInstant, sShutdown, state, sMu, sStep, sFrom,
                   consecutivePanics, sRuns>>
    /\ UNCHANGED outsideSched

\* after state.Stop() of the shutdown case: status := state.GetStatus()
ShutdownStatus ==
    /\ sPc = "s_called"
    /\ sFrom = "shutdown"
    /\ sCall = "Stop"
    /\ sPc' = "s_call"
    /\ sCall' = "GetStatus"
    /\ sStep' = "lock"
    /\ UNCHANGED <<sInterval, sRunInstant, sShutdown, state, sMu, sFrom, consecutivePanics,
                   sRuns, sReason>>
    /\ UNCHANGED outsideSched

\* the final statistics were logged: return
ShutdownReturns ==
    /\ sPc = "s_called"
    /\ sFrom = "shutdown"
    /\ sCall = "GetStatus"
    /\ sPc' = "returned"
    /\ sReason' = "shutdown"
    /\ sCall' = "none"
    /\ UNCHANGED <<sInterval, sRunInstant, sShutdown, state, sMu, sStep, sFrom,
                   consecutivePanics, sRuns>>
    /\ UNCHANGED outsideSched

\* every step of the scheduler's own goroutine (the tick and the signal come from outside)
SchedulerStep ==
    \/ IntervalRejected
    \/ SchedulerStarts
    \/ InitialExecution
    \/ StateLocks
    \/ StateBody
    \/ StateUnlocks
    \/ AfterInitialExecution
    \/ AfterSuccess
    \/ AfterPanic
    \/ StatusLogged
    \/ BreakerReturns
    \/ ShutdownStatus
    \/ ShutdownReturns

SchedNext ==
    \/ ShutdownSignal
    \/ IntervalRejected
    \/ SchedulerStarts
    \/ InitialExecution
    \/ ScheduledExecution
    \/ ShutdownReceived
    \/ StateLocks
    \/ StateBody
    \/ StateUnlocks
    \/ AfterInitialExecution
    \/ AfterSuccess
    \/ AfterPanic
    \/ StatusLogged
    \/ BreakerReturns
    \/ ShutdownStatus
    \/ ShutdownReturns

SchedSpec == SchedInit /\ [][SchedNext]_vars

\* the goroutine keeps running, and a select that finds the context done over and over
\* takes that case in the end (select chooses at random among the ready cases)
SchedFairSpec ==
    SchedSpec /\ WF_vars(SchedulerStep) /\ SF_vars(ShutdownReceived)

-----------------------------------------------------------------------------
(* Snowflake IDs: snowflake.NextID.                                        *)

\* how many times the clock advances in one behaviour
MaxTicks == 2

nodeBits == 10

sequenceBits == 12

RECURSIVE Pow2(_)
Pow2(n) == IF n = 0 THEN 1 ELSE 2 * Pow2(n - 1)

\* x << n, for results within the integer width
ShiftLeft(x, n) == x * Pow2(n)

\* a & b and a | b on non-negative integers, bit by bit
RECURSIVE BitAnd(_, _)
BitAnd(a, b) ==
    IF a = 0 \/ b = 0 THEN 0
    ELSE (IF a % 2 = 1 /\ b % 2 = 1 THEN 1 ELSE 0) + 2 * BitAnd(a \div 2, b \div 2)

RECURSIVE BitOr(_, _)
BitOr(a, b) ==
    IF a = 0 THEN b
    ELSE IF b = 0 THEN a
    ELSE (IF a % 2 = 1 \/ b % 2 = 1 THEN 1 ELSE 0) + 2 * BitOr(a \div 2, b \div 2)

\* -1 ^ (-1 << nodeBits): the low nodeBits bits set
maxNodeID == Pow2(nodeBits) - 1

\* -1 ^ (-1 << sequenceBits)
maxSequence == Pow2(sequenceBits) - 1

nodeShift == sequenceBits

timeShift == sequenceBits + nodeBits

\* newGenerator(): SNOWFLAKE_NODE_ID clamped into 0..maxNodeID
newGenerator(envNodeID) ==
    [nodeID |-> IF envNodeID < 0 THEN 0
                ELSE IF envNodeID > maxNodeID THEN maxNodeID ELSE envNodeID,
     sequence |-> 0,
     lastStamp |-> ZeroStamp]

\* a sequence that does not advance
nextSequence_Stuck(sequence) == BitAnd(sequence, maxSequence)

\* (g.sequence + 1) & maxSequence
nextSequence(sequence) == BitAnd(sequence + 1, maxSequence)

\* a loop that never waits
loopCondition_NeverWaits(t, lastStamp) == FALSE

\* for ts <= g.lastStamp: the condition of the wait loop
loopCondition(t, lastStamp) == t <= lastStamp

\* ((ts - epoch) << timeShift) | (g.nodeID << nodeShift) | g.sequence, with the
\* time given in milliseconds since the epoch
composeID(sinceEpoch, nodeID, sequence) ==
    BitOr(BitOr(ShiftLeft(sinceEpoch, timeShift), ShiftLeft(nodeID, nodeShift)), sequence)

\* values of SNOWFLAKE_NODE_ID: below the range, and above it
NodeIDSettings == {-1, maxNodeID + 1}

SnowInit ==
    /\ TxIdle
    /\ ClassifierIdle
    /\ ConnIdle
    /\ FileIdle
    /\ SchedIdle
    /\ \E envNodeID \in NodeIDSettings : g = newGenerator(envNodeID)
    /\ gMu = "free"
    /\ nPc = [c \in Callers |-> "idle"]
    /\ ts = 0
    /\ nWrapped = FALSE
    /\ clock = 0
    /\ lastID = NoID

\* the clock advances by a millisecond; it never goes back
ClockTicks ==
    /\ clock < MaxTicks
    /\ clock' = clock + 1
    /\ UNCHANGED <<g, gMu, nPc, ts, nWrapped, lastID>>
    /\ UNCHANGED outsideSnow

\* a goroutine calls NextID and reaches g.mu.Lock()
NextIDCalled(c) ==
    /\ nPc[c] = "idle"
    /\ nPc' = [nPc EXCEPT ![c] = "waiting"]
    /\ UNCHANGED <<g, gMu, ts, nWrapped, clock, lastID>>
    /\ UNCHANGED outsideSnow

\* g.mu.Lock() returns
NextIDLocks(c) ==
    /\ nPc[c] = "waiting"
    /\ gMu = "free"
    /\ gMu' = c
    /\ nPc' = [nPc EXCEPT ![c] = "read"]
    /\ UNCHANGED <<g, ts, nWrapped, clock, lastID>>
    /\ UNCHANGED outsideSnow

\* ts := time.Now().UnixMilli() and the if around the sequence
NextIDReadsClock(c) ==
    /\ nPc[c] = "read"
    /\ ts' = clock
    /\ IF ts' = g.lastStamp
       THEN /\ g' = [g EXCEPT !.sequence = nextSequence(g.sequence)]
            /\ nWrapped' = (g'.sequence = 0)
            /\ nPc' = [nPc EXCEPT ![c] = IF g'.sequence = 0 THEN "spin" ELSE "stamp"]
       ELSE /\ g' = [g EXCEPT !.sequence = 0]
            /\ nWrapped' = FALSE
            /\ nPc' = [nPc EXCEPT ![c] = "stamp"]
    /\ UNCHANGED <<gMu, clock, lastID>>
    /\ UNCHANGED outsideSnow

\* for ts <= g.lastStamp { ts = time.Now().UnixMilli() }: one turn of the loop
NextIDSpins(c) ==
    /\ nPc[c] = "spin"
    /\ loopCondition(ts, g.lastStamp)
    /\ ts' = clock
    /\ UNCHANGED <<g, gMu, nPc, nWrapped, clock, lastID>>
    /\ UNCHANGED outsideSnow

\* the loop's condition is false: the wait is over
NextIDLeavesLoop(c) ==
    /\ nPc[c] = "spin"
    /\ ~loopCondition(ts, g.lastStamp)
    /\ nPc' = [nPc EXCEPT ![c] = "stamp"]
    /\ UNCHANGED <<g, gMu, ts, nWrapped, clock, lastID>>
    /\ UNCHANGED outsideSnow

\* g.lastStamp = ts; return the ID; the deferred g.mu.Unlock()
NextIDReturns(c) ==
    /\ nPc[c] = "stamp"
    /\ g' = [g EXCEPT !.lastStamp = ts]
    /\ lastID' = composeID(ts, g.nodeID, g.sequence)
    /\ gMu' = "free"
    /\ nPc' = [nPc EXCEPT ![c] = "idle"]
    /\ nWrapped' = FALSE
    /\ UNCHANGED <<ts, clock>>
    /\ UNCHANGED outsideSnow

SnowNext ==
    \/ ClockTicks
    \/ \E c \in Callers : NextIDCalled(c)
    \/ \E c \in Callers : NextIDLocks(c)
    \/ \E c \in Callers : NextIDReadsClock(c)
    \/ \E c \in Callers : NextIDSpins(c)
    \/ \E c \in Callers : NextIDLeavesLoop(c)
    \/ \E c \in Callers : NextIDReturns(c)

SnowSpec == SnowInit /\ [][SnowNext]_vars

-----------------------------------------------------------------------------
(* Properties.                                                             *)

Retrying == mode = "TransactionWithRetry"

\* a call of transactionWithContext has returned and its outcome is still in
\* the per-attempt variables
AttemptOver == mode # "TransactionWithIsolation" /\ attempts >= 1 /\ pc \in {"r_after", "done"}

\* a call of Transaction or TransactionWithIsolation has returned
TxCallOver == mode \in {"Transaction", "TransactionWithIsolation"} /\ pc = "done"

\* the returned error e wraps r: r's chain is the tail of e's chain
Wraps(e, r) ==
    /\ e.kind = r.kind
    /\ e.val = r.val
    /\ Len(e.wraps) >= Len(r.wraps)
    /\ SubSeq(e.wraps, Len(e.wraps) - Len(r.wraps) + 1, Len(e.wraps)) = r.wraps

\* the text s is a part of e's message
MessageContains(e, s) == \E i \in 1 .. Len(ErrorString(e)) : ErrorString(e)[i] = s

Exhausted(e) == e # Nil /\ Len(e.wraps) >= 1 /\ e.wraps[1] = "transaction failed after maximum retries"

\* C1: when begin succeeded, the operation returned nil without panicking and
\* the context was not done at the pre-commit check, Commit was called exactly
\* once and Rollback never.
C1_CommitOnSuccess ==
    (AttemptOver /\ began /\ opResult = "nil" /\ observed # "precommit")
        => (commits = 1 /\ rollbacks = 0)

C1_Witness ==
    /\ mode = "Transaction" /\ pc = "done"
    /\ began /\ opResult = "nil" /\ observed = "none"
    /\ commits = 1 /\ rollbacks = 0 /\ result = Nil

\* C2: when the operation returned a non-nil error or panicked, Rollback was
\* called exactly once, Commit never, and the call returned normally (no panic
\* unwound through it) with a non-nil error.
C2_RollbackOnFailure ==
    (AttemptOver /\ opResult \in {"err", "panic"})
        => (rollbacks = 1 /\ commits = 0 /\ err # Nil /\ result.kind # "panic"
            /\ (mode = "Transaction" => result = err))

C2_Witness ==
    /\ mode = "Transaction" /\ pc = "done"
    /\ opResult = "panic" /\ recovered.s = "boom"
    /\ rollbacks = 1 /\ commits = 0
    /\ result = WrapError(CreateError("boom"), "transaction panicked")

\* C3 (as stated): every call of Transaction and of TransactionWithIsolation
\* attempts exactly one of Commit and Rollback, whatever the outcome of the
\* cancellation checks and of begin.
C3_ExactlyOneAlways == TxCallOver => commits + rollbacks = 1

\* C3 (amended): a call in which begin succeeded attempts exactly one of Commit
\* and Rollback; a call that returned at the check before begin, or whose begin
\* failed, attempts neither.
C3_ExactlyOneOnceBegun ==
    TxCallOver => /\ began => commits + rollbacks = 1
                  /\ ~began => commits + rollbacks = 0

C3_Witness ==
    /\ TxCallOver /\ mode = "TransactionWithIsolation"
    /\ began /\ opResult = "panic" /\ rollbacks = 1 /\ commits = 0

\* C4: when the operation returned error E and Rollback then failed with R, the
\* returned error wraps R and still carries E.
C4_RollbackFailureKeepsCause ==
    (AttemptOver /\ opResult = "err" /\ rbErr # Nil)
        => (Wraps(err, rbErr) /\ MessageContains(err, opErr.val))

\* C5: for every panic payload p the call returns a non-nil error whose message
\* contains the string form of p, and Rollback was attempted, whether the
\* rollback succeeded or failed.
C5_PanicPayloadInError ==
    (AttemptOver /\ opResult = "panic")
        => (err # Nil /\ MessageContains(err, FormatV(recovered)) /\ rollbacks >= 1)

BackoffsNonDecreasing ==
    \A i \in 1 .. Len(backoffs) - 1 : backoffs[i + 1] >= backoffs[i]

\* each backoff is strictly greater than the one before
BackoffsStrictlyIncreasing ==
    \A i \in 1 .. Len(backoffs) - 1 : backoffs[i + 1] > backoffs[i]

\* each backoff is strictly greater than the one before until the cap is reached
BackoffsIncreasingBelowCap ==
    \A i \in 1 .. Len(backoffs) - 1 :
        backoffs[i] < BackoffCapSeconds => backoffs[i + 1] > backoffs[i]

AtMostMaxRetriesPlusOne == (Retrying /\ pc # "entry") => attempts <= maxRetries + 1

FirstSuccessEndsCall ==
    (Retrying /\ successes >= 1 /\ pc # "r_after")
        => (pc = "done" /\ result = Nil /\ successes = 1)

\* C7 (as stated): at most maxRetries + 1 attempts, the backoff before each
\* retry strictly greater than the backoff before the previous retry, and the
\* first attempt that returns nil ends the call with nil.
C7_StrictBackoff ==
    AtMostMaxRetriesPlusOne /\ BackoffsStrictlyIncreasing /\ FirstSuccessEndsCall

\* C7 (amended): at most maxRetries + 1 attempts; the backoff before each retry
\* is strictly greater than the one before the previous retry until it reaches
\* the 10 s cap and stays at the cap afterwards; the first attempt that returns
\* nil ends the call with nil.
C7_BackoffIncreasesUpToCap ==
    /\ AtMostMaxRetriesPlusOne
    /\ BackoffsNonDecreasing
    /\ BackoffsIncreasingBelowCap
    /\ \A i \in 1 .. Len(backoffs) : backoffs[i] <= BackoffCapSeconds
    /\ FirstSuccessEndsCall

C7_Witness ==
    /\ Retrying /\ pc = "done" /\ result = Nil /\ successes = 1
    /\ Len(backoffs) >= 4 /\ attempts = Len(backoffs) + 1
    /\ backoffs[4] = BackoffCapSeconds /\ backoffs[3] < backoffs[4]
    /\ KindOf(lastError) \in RetryableKinds

\* C8: for maxRetries >= 0, when every attempt failed with a retryable kind and
\* the context never ended, exactly maxRetries + 1 attempts were made and the
\* result wraps the last attempt's error with the retries-exhausted context.
C8_ExhaustsAllAttempts ==
    (Retrying /\ pc = "done" /\ ctxErr = "none" /\ allRetryable)
        => /\ maxRetriesArg >= 0 => attempts = maxRetriesArg + 1
           /\ attempts = maxRetries + 1
           /\ lastError = err
           /\ result = WrapError(err, "transaction failed after maximum retries")
           /\ Exhausted(result)
           /\ Wraps(result, err)

C8_Witness ==
    /\ Retrying /\ pc = "done" /\ ctxErr = "none" /\ allRetryable
    /\ maxRetriesArg = 2 /\ attempts = 3
    /\ result = WrapError(PqError("55P03"), "transaction failed after maximum retries")

\* the context ended while the retry loop was between two attempts: at the
\* check before a retry or in the backoff wait
CancelledBetweenAttempts ==
    Retrying /\ cancelAt.attempt > 0 /\ cancelAt.pc \in {"r_check", "r_backoff"}

\* C9: when the context ends between attempts or during the backoff, no further
\* attempt starts and the call returns an error wrapping the context's error,
\* never the retries-exhausted error.
C9_CancelStopsRetrying ==
    CancelledBetweenAttempts =>
        /\ pc \in {"r_check", "r_backoff", "done"}
        /\ attempts = cancelAt.attempt
        /\ begins = cancelAt.begins
        /\ pc = "done" => /\ Wraps(result, CtxError(ctxErr))
                          /\ errorsIs(result, "DeadlineExceeded")
                          /\ ~Exhausted(result)

C9_Witness ==
    /\ Retrying /\ pc = "done" /\ cancelAt.pc = "r_backoff" /\ attempts = 2
    /\ result = WrapError(CtxError("DeadlineExceeded"), "transaction retry cancelled during backoff")

\* C10: when one of Transaction's phase checks (before begin, before the
\* operation, before commit) sees the context done, the returned error wraps
\* the context's error.
C10_CancellationClassified ==
    (mode = "Transaction" /\ pc = "done" /\ observed # "none")
        => errorsIs(result, ctxErr)

\* what a call with no retry budget returns, from the context's state at the
\* check before the attempt and from what the single attempt returned
SingleAttemptResult ==
    IF attempts = 0
    THEN WrapError(CtxError(ctxErr), "transaction with retry cancelled")
    ELSE IF err = Nil THEN Nil
    ELSE IF KindOf(err) \in RetryableKinds
    THEN WrapError(err, "transaction failed after maximum retries")
    ELSE err

\* C11: a negative maxRetries behaves as maxRetries = 0: one attempt (none when
\* the context is already done at the check before it), no backoff, and the
\* result that maxRetries = 0 gives for the same attempt outcome.
C11_NegativeActsAsZero ==
    (Retrying /\ maxRetriesArg <= 0 /\ pc # "entry")
        => /\ maxRetries = 0
           /\ attempts <= 1
           /\ backoffs = <<>>
           /\ pc \notin {"r_backoff"}
           /\ pc = "done" => /\ attempts = 1 \/ cancelAt.pc = "r_check"
                             /\ result = SingleAttemptResult

C11_Witness ==
    /\ Retrying /\ maxRetriesArg = -1 /\ pc = "done" /\ attempts = 1 /\ backoffs = <<>>
    /\ result = WrapError(PqError("55P03"), "transaction failed after maximum retries")

\* C17: when Commit fails, the call returns a non-nil error that wraps the
\* commit failure, and Rollback is not called: one Commit, no Rollback.
C17_FailedCommitNoRollback ==
    (AttemptOver /\ cmErr # Nil)
        => /\ commits = 1 /\ rollbacks = 0
           /\ err # Nil
           /\ Wraps(err, cmErr)
           /\ err = WrapError(cmErr, "failed to commit transaction")
           /\ mode = "Transaction" => result = err

C17_Witness ==
    /\ mode = "Transaction" /\ pc = "done"
    /\ cmErr = CreateError("driver: bad connection")
    /\ commits = 1 /\ rollbacks = 0
    /\ result = WrapError(CreateError("driver: bad connection"), "failed to commit transaction")

\* C18: Commit is attempted only when the operation returned nil without
\* panicking and the context was not done at the pre-commit check; when the
\* operation returned nil and the context is done at that check, the
\* transaction is rolled back instead and the call returns a non-nil error.
\* (In a finished call of Transaction ctxErr is what the deferred function read.)
C18_CommitOnlyAfterCleanSuccess ==
    (mode = "Transaction" /\ pc = "done")
        => /\ commits >= 1
                => (began /\ opResult = "nil" /\ recovered = NoPanic
                    /\ ctxErr = "none" /\ observed = "none")
           /\ (opResult = "nil" /\ ctxErr # "none")
                => (observed = "precommit" /\ rollbacks = 1 /\ commits = 0 /\ result # Nil)

C18_Witness ==
    /\ mode = "Transaction" /\ pc = "done"
    /\ opResult = "nil" /\ observed = "precommit" /\ rollbacks = 1 /\ commits = 0
    /\ result = WrapError(CtxError("DeadlineExceeded"), "transaction cancelled before commit")

\* the root error of both chains is the same failure
SameCause(e, f) == e.kind = f.kind /\ e.val = f.val

\* what the two deferred functions do with the same events
SameOutcome(rb, cm) ==
    LET a == deferredCleanup(recovered, err, ctxErr, rb, cm)
        b == deferredCleanupIsolation(recovered, err, ctxErr, rb, cm)
    IN  /\ a.commits = b.commits /\ a.rollbacks = b.rollbacks
        /\ a.panicking = b.panicking
        /\ (a.err = Nil) <=> (b.err = Nil)
        /\ SameCause(a.err, b.err)

\* C19: with the same events (operation result or panic, context state,
\* Rollback result, Commit result) the deferred function of
\* TransactionWithIsolation makes the same driver calls as the one of
\* Transaction and returns nil or an error of the same underlying failure.
C19_IsolationSameAsTransaction ==
    pc = "t_defer"
        => \A rb \in RollbackErrors \cup {Nil}, cm \in CommitErrors \cup {Nil} :
               SameOutcome(rb, cm)

\* the two agree whenever it is not a panic whose Rollback fails
IsolationSameExceptFailedRollbackAfterPanic ==
    pc = "t_defer"
        => \A rb \in RollbackErrors \cup {Nil}, cm \in CommitErrors \cup {Nil} :
               (recovered = NoPanic \/ rb = Nil) => SameOutcome(rb, cm)

isCancellation(e) == errorsIs(e, "Canceled") \/ errorsIs(e, "DeadlineExceeded")

\* C20: when an attempt of TransactionWithRetry returns an error that wraps
\* context.Canceled or context.DeadlineExceeded, the next step ends the call
\* with that error, without a further attempt or backoff, whatever is left
\* of the retry budget.  (A step that changes ctxErr is the deadline passing,
\* a step of the environment.)
C20_CancellationIsTerminal ==
    [][(Retrying /\ pc = "r_after" /\ isCancellation(err) /\ ctxErr' = ctxErr)
          => /\ pc' = "done"
             /\ result' = err /\ isCancellation(result')
             /\ attempts' = attempts /\ backoffs' = backoffs]_vars

C20_Witness ==
    /\ Retrying /\ pc = "done" /\ attempts = 1 /\ maxRetries >= 2
    /\ opResult = "nil" /\ observed = "precommit"
    /\ result = WrapError(CtxError("DeadlineExceeded"), "transaction cancelled before commit")

-----------------------------------------------------------------------------
(* Properties of the classifier, checked under ClassifySpec.               *)

\* AnalyzeDatabaseError has returned to the caller of the classifier
Analyzed == clsPc \in {"analyzed", "asked", "done"}

\* the table of kinds by driver code
KindTable ==
    {<<"23505", "duplicate">>, <<"23503", "foreign_key">>, <<"23502", "not_null">>,
     <<"23514", "check_constraint">>, <<"42P01", "undefined_table">>,
     <<"42703", "undefined_column">>, <<"28000", "authentication">>,
     <<"28P01", "authentication">>, <<"55P03", "lock_timeout">>,
     <<"53300", "too_many_connections">>, <<"57014", "query_cancelled">>}

\* C12: for a driver error (bare or wrapped) AnalyzeDatabaseError gives the
\* kind the table lists for its code, and the result carries the driver's
\* constraint, table and column.
C12_CodesMapToKinds ==
    (Analyzed /\ errorsAsPq(clsErr))
        => /\ ~clsDbError.isNil
           /\ \A p \in KindTable : clsErr.val = p[1] => clsDbError.ErrorType = p[2]
           /\ clsDbError.Constraint = clsErr.Constraint
           /\ clsDbError.Table = clsErr.Table
           /\ clsDbError.Column = clsErr.Column

C12_Witness ==
    /\ clsPc = "done"
    /\ clsErr.wraps = <<"rollback failed">> /\ errorsAsPq(clsErr) /\ clsErr.val = "55P03"
    /\ clsDbError.ErrorType = "lock_timeout"
    /\ clsDbError.Constraint = <<"o", "r", "g", "_", "i", "d", "_", "k", "e", "y">>
    /\ clsDbError.Table = <<"u", "s", "e", "r", "s">>
    /\ clsDbError.Column = <<"f", "i", "r", "s", "t", "_", "n", "a", "m", "e">>

\* C13 as stated: a driver error of a code without a case classifies as
\* generic, an error that is no driver error as unknown.
C13_GenericForUnmappedCode ==
    (Analyzed /\ clsErr # Nil)
        => /\ (errorsAsPq(clsErr) /\ clsErr.val \notin MappedCodes)
                => clsDbError.ErrorType = "generic"
           /\ ~errorsAsPq(clsErr) => clsDbError.ErrorType = "unknown"

\* C13, amended: a driver error of a code without a case classifies as
\* unknown, a non-nil error that is no driver error as generic, and a nil
\* error has no classification.
C13_UnknownForUnmappedCode ==
    Analyzed
        => /\ (errorsAsPq(clsErr) /\ clsErr.val \notin MappedCodes)
                => (~clsDbError.isNil /\ clsDbError.ErrorType = "unknown")
           /\ (clsErr # Nil /\ ~errorsAsPq(clsErr))
                => (~clsDbError.isNil /\ clsDbError.ErrorType = "generic")
           /\ clsErr = Nil => clsDbError.isNil

C13_Witness ==
    /\ clsPc = "done"
    /\ errorsAsPq(clsErr) /\ clsErr.val = "40001" /\ clsErr.wraps = <<>>
    /\ clsDbError.ErrorType = "unknown"

\* C14: ShouldRetryError answers true exactly for the kinds lock_timeout,
\* too_many_connections and query_cancelled, and so answers as
\* isRetryableTransactionError does for the same error.
C14_ShouldRetryIffRetryableKind ==
    clsPc = "done"
        => /\ clsShouldRetry <=> (clsDbError.ErrorType \in RetryableKinds)
           /\ clsShouldRetry <=> clsRetryable

\* the last element is joined to the ones before it by one space
RECURSIVE SpaceSeparated(_)
SpaceSeparated(ws) ==
    IF Len(ws) = 1 THEN ws[1]
    ELSE SpaceSeparated(SubSeq(ws, 1, Len(ws) - 1)) \o <<" ">> \o ws[Len(ws)]

\* C16: a unique violation (code 23505) whose constraint is named
\* "<table>_<w1>_..._<wn>_key" classifies as duplicate with the message
\* "<w1> ... <wn> already exists", and ShouldRetryError answers false.
C16_DuplicateMessageNamesColumns ==
    \A t \in Tables, ws \in WordSeqs :
        (/\ clsPc = "done"
         /\ errorsAsPq(clsErr) /\ clsErr.val = "23505"
         /\ clsErr.Constraint = UniqueConstraintName(t, ws))
            => /\ clsDbError.ErrorType = "duplicate"
               /\ clsDbError.Message = SpaceSeparated(ws) \o Spell(" already exists")
               /\ ~clsShouldRetry

\* "users_email_key" gives "email already exists"
C16_Witness ==
    /\ clsPc = "done"
    /\ errorsAsPq(clsErr) /\ clsErr.val = "23505"
    /\ clsErr.Constraint = <<"u", "s", "e", "r", "s", "_", "e", "m", "a", "i", "l", "_",
                             "k", "e", "y">>
    /\ clsDbError.ErrorType = "duplicate"
    /\ clsDbError.Message = <<"e", "m", "a", "i", "l", " ", "a", "l", "r", "e", "a", "d", "y",
                              " ", "e", "x", "i", "s", "t", "s">>
    /\ ~clsShouldRetry

-----------------------------------------------------------------------------
(* Further properties of the transaction entry points, checked under Spec. *)

\* min(10 s, k*k s)
CappedSquare(k) == IF k * k < 10 THEN k * k ELSE 10

\* C23: the k-th backoff waited is min(10 s, k*k s), it precedes attempt k
\* (so there are attempts - 1 of them once the first attempt was made and
\* none before attempt 0), the loop waits only when attempt > 0, and no
\* backoff exceeds 10 s.
C23_BackoffIsCappedSquare ==
    Retrying
        => /\ \A k \in 1 .. Len(backoffs) : backoffs[k] = CappedSquare(k) /\ backoffs[k] <= 10
           /\ Len(backoffs) = IF attempts = 0 THEN 0 ELSE attempts - 1
           /\ pc = "r_backoff" => (attempt >= 1 /\ attempts = attempt)

C23_Witness ==
    /\ Retrying /\ attempts = 5 /\ backoffs = <<1, 4, 9, 10>>

\* C28: when the check before the operation sees the context done, the
\* operation is not invoked, nothing is committed, and once Transaction has
\* returned the transaction that was begun has been rolled back exactly once
\* and the result is a non-nil error.
C28_CancelBeforeOperationRollsBack ==
    (mode = "Transaction" /\ observed = "preop")
        => /\ began /\ opResult = "none" /\ commits = 0
           /\ pc \in {"t_defer", "done"}
           /\ pc = "t_defer" => rollbacks = 0
           /\ pc = "done" => (rollbacks = 1 /\ result # Nil)

C28_Witness ==
    /\ mode = "Transaction" /\ pc = "done" /\ observed = "preop"
    /\ began /\ opResult = "none" /\ rollbacks = 1 /\ commits = 0
    /\ result = WrapError(CtxError("DeadlineExceeded"),
                          "transaction cancelled before operation execution")

\* C29: when the operation panicked in an attempt of TransactionWithRetry,
\* the attempt was rolled back and the next step of the retry loop ends the
\* call with a non-nil error: no further attempt, no escaping panic.
C29_PanicIsNeverRetried ==
    [][(Retrying /\ pc = "r_after" /\ opResult = "panic" /\ ctxErr' = ctxErr)
          => /\ rollbacks = 1 /\ commits = 0
             /\ pc' = "done" /\ attempts' = attempts
             /\ result' # Nil /\ result'.kind # "panic"]_vars

\* the same, for the attempts whose Rollback after the panic succeeded
PanicNotRetriedWhenRollbackSucceeds ==
    [][(Retrying /\ pc = "r_after" /\ opResult = "panic" /\ rbErr = Nil /\ ctxErr' = ctxErr)
          => /\ rollbacks = 1 /\ commits = 0
             /\ pc' = "done" /\ attempts' = attempts
             /\ result' # Nil /\ result'.kind # "panic"]_vars

-----------------------------------------------------------------------------
(* Properties of the connection manager, checked under ConnSpec and        *)
(* ConnFairSpec.                                                           *)

\* empty or made of white space only
Blank(v) == \A i \in 1 .. Len(v) : v[i] \in Whitespace

SettingNames == {"DATABASE_USERNAME", "DATABASE_PASSWORD", "DATABASE_HOST", "DATABASE_PORT",
                 "DATABASE_NAME", "DATABASE_SSL_MODE"}

SettingValue(opts, name) ==
    CASE name = "DATABASE_USERNAME" -> opts.Username
      [] name = "DATABASE_PASSWORD" -> opts.Password
      [] name = "DATABASE_HOST" -> opts.Host
      [] name = "DATABASE_PORT" -> opts.Port
      [] name = "DATABASE_NAME" -> opts.DatabaseName
      [] name = "DATABASE_SSL_MODE" -> opts.SSLMode

MissingSettings(opts) == {n \in SettingNames : Blank(SettingValue(opts, n))}

\* the error is the validation error and its text names the missing settings, all and only
NamesMissingSettings(e, opts) ==
    /\ e.kind = "text" /\ e.wraps = <<>>
    /\ \A n \in SettingNames : Contains(e.text, Spell(n)) <=> n \in MissingSettings(opts)

ConnectOver == cOp = "Connect" /\ cPc = "done"

\* C21 as stated: whenever a required setting is blank, Connect fails with an
\* error naming all and only the missing settings, without opening a handle
\* or pinging.
C21_MissingSettingsNamed ==
    (ConnectOver /\ MissingSettings(cOpts) # {})
        => /\ cRetErr # Nil /\ cRetDb = "nil"
           /\ NamesMissingSettings(cRetErr, cOpts)
           /\ cOpens = 0 /\ cPings = 0 /\ cDb = "nil"

\* C21, amended: whenever a required setting is blank, Connect fails without
\* opening a handle or pinging; the error names all and only the missing
\* settings unless the context was already done at the check before the
\* validation, and then the error is the cancellation error.
C21_MissingSettingsNamedUnlessCancelled ==
    (ConnectOver /\ MissingSettings(cOpts) # {})
        => /\ cRetErr # Nil /\ cRetDb = "nil"
           /\ cOpens = 0 /\ cPings = 0 /\ cDb = "nil"
           /\ IF cSeen = "start"
              THEN cRetErr = WrapError(CtxError("DeadlineExceeded"),
                                       "database connection cancelled before start")
              ELSE NamesMissingSettings(cRetErr, cOpts)

C21_Witness ==
    /\ ConnectOver /\ cSeen = "none"
    /\ MissingSettings(cOpts) = {"DATABASE_PASSWORD", "DATABASE_SSL_MODE"}
    /\ cOpts.Password = <<" ", "\t">>
    /\ cRetErr = Errorf(Spell(".env file is missing required database option(s): ")
                        \o Spell("DATABASE_PASSWORD") \o <<",", " ">>
                        \o Spell("DATABASE_SSL_MODE"))
    /\ cOpens = 0 /\ cPings = 0

\* C27: Connect returns a handle exactly when it returns a nil error, the
\* returned handle is open, configured and pinged, and whenever it fails
\* after sql.Open gave a handle, that handle has been closed (once).
C27_NoHandleLeak ==
    ConnectOver
        => /\ (cRetDb = "db") <=> (cRetErr = Nil)
           /\ cRetErr = Nil
                => (cDb = "open" /\ cOpens = 1 /\ cCloses = 0 /\ cPooled /\ cPings = 1)
           /\ (cRetErr # Nil /\ cOpens >= 1) => (cDb = "closed" /\ cCloses = 1)
           /\ (cRetErr # Nil /\ cOpens = 0) => (cDb = "nil" /\ cCloses = 0)

C27_Witness ==
    /\ ConnectOver /\ cSeen = "ping" /\ cPings = 1 /\ cOpens = 1
    /\ cDb = "closed" /\ cCloses = 1 /\ cRetDb = "nil"
    /\ cRetErr = WrapError(CtxError("DeadlineExceeded"),
                           "database connection cancelled after successful ping")

CloseOver == cOp = "Close" /\ cPc = "done"

\* the goroutine is at its send and the send cannot happen
SendBlocked ==
    /\ gPc = "send"
    /\ IF closeDone.cap = 0 THEN cPc # "x_wait" ELSE Len(closeDone.buf) >= closeDone.cap

\* C22: when the select of Close takes the context's case, Close returns
\* the wrapped context error at once, whatever the goroutine is doing; the
\* goroutine's send is never blocked once Close has returned; and the
\* db.Close that a goroutine began is completed and the goroutine exits.
C22_CloseTimeoutLeavesNoBlockedTask ==
    /\ [](CloseOver /\ cSeen = "wait"
            => /\ cRetErr = WrapError(CtxError("DeadlineExceeded"), "database close cancelled")
               /\ isCancellation(cRetErr))
    /\ [](CloseOver => ~SendBlocked)
    /\ (gPc = "closing") ~> (gPc = "exited" /\ cDb = "closed" /\ cCloses = 1)

\* Close has returned on the timeout while db.Close is still running
C22_Witness ==
    /\ CloseOver /\ cSeen = "wait" /\ gPc = "closing" /\ cDb = "open"
    /\ cRetErr = WrapError(CtxError("DeadlineExceeded"), "database close cancelled")

\* the batch upload call has returned
UploadOver == fPc = "done"

\* the UploadFile calls made before the last one all returned a name
EarlierUploadsOk == \A k \in 1..(Len(fOutcomes) - 1) : fOutcomes[k] = "ok"

\* the last UploadFile call of the batch failed
AnUploadFailed == fOutcomes # <<>> /\ fOutcomes[Len(fOutcomes)] # "ok"

\* C24: UploadMultipleFiles is all-or-nothing. A call given different numbers of files
\* and names returns (nil, error) before any UploadFile call. Once an UploadFile call
\* has failed no further one is made, DeleteFile is called once for every name uploaded
\* earlier in the call, in upload order, and the call returns (nil, error). A call whose
\* uploads all succeeded returns no error and one stored name per input, in input
\* order, each of them distinct and present in the directory; a call returns no error
\* in no other case.
C24_BatchUploadAllOrNothing ==
    /\ EarlierUploadsOk
    /\ Len(fOutcomes) <= Len(files)
    /\ UploadOver =>
          /\ Len(files) # Len(fileNames) =>
                /\ fRet.isNil /\ fRet.err # Nil
                /\ fOutcomes = <<>> /\ fDeletes = <<>> /\ fDisk = {}
          /\ AnUploadFailed =>
                /\ fRet.isNil /\ fRet.err # Nil
                /\ Len(uploadedFiles) = Len(fOutcomes) - 1
                /\ fDeletes = uploadedFiles
          /\ fRet.err # Nil => (fRet.isNil /\ fDeletes = uploadedFiles)
          /\ (Len(files) = Len(fileNames) /\ Len(fOutcomes) = Len(files) /\ ~AnUploadFailed) =>
                fRet.err = Nil
          /\ fRet.err = Nil =>
                /\ ~fRet.isNil
                /\ fDeletes = <<>>
                /\ Len(fRet.names) = Len(files)
                /\ Len(files) = Len(fileNames)
                /\ \A i \in 1..Len(files) :
                      /\ fRet.names[i].of = fileNames[i]
                      /\ fRet.names[i] \in fDisk
                /\ \A i, j \in 1..Len(files) : i # j => fRet.names[i] # fRet.names[j]

\* the third of three uploads failed and both earlier files went through the rollback
C24_Witness ==
    /\ UploadOver
    /\ Len(files) = 3
    /\ fOutcomes = <<"ok", "ok", "copy_fails">>
    /\ Len(fDeletes) = 2
    /\ fRet.isNil

\* a run whose RecordExecution / RecordPanic has not yet changed the state
RecordPending ==
    sPc = "s_call" /\ sCall \in {"RecordExecution", "RecordPanic"} /\ sStep \in {"lock", "body"}

\* the runs already recorded in the state
RecordedRuns == IF RecordPending THEN SubSeq(sRuns, 1, Len(sRuns) - 1) ELSE sRuns

\* how many of the runs ended the given way
RunsEnding(runs, panicked) == Cardinality({k \in 1..Len(runs) : runs[k].panicked = panicked})

\* a step that changes a counter adds 1 to exactly one of them, with the mutex locked
\* before and after the step
CounterStep ==
    /\ state'.ExecutionCount >= state.ExecutionCount
    /\ state'.PanicCount >= state.PanicCount
    /\ (state'.ExecutionCount # state.ExecutionCount \/ state'.PanicCount # state.PanicCount) =>
          /\ sMu = "locked" /\ sMu' = "locked"
          /\ state'.ExecutionCount + state'.PanicCount
                = state.ExecutionCount + state.PanicCount + 1

\* C25: ExecutionCount and PanicCount never decrease; ExecutionCount is the number of
\* recorded runs that returned and PanicCount the number that panicked, so every run
\* adds 1 to exactly one of them; and a counter only changes in a step taken with the
\* state mutex locked.
C25_CountersMonotonicUnderMutex ==
    /\ [](/\ state.ExecutionCount = RunsEnding(RecordedRuns, FALSE)
          /\ state.PanicCount = RunsEnding(RecordedRuns, TRUE))
    /\ [][CounterStep]_vars

\* the state after several returned and several panicked runs
C25_Witness ==
    /\ sPc = "returned"
    /\ state.ExecutionCount >= 2
    /\ state.PanicCount >= 2
    /\ Len(sRuns) = state.ExecutionCount + state.PanicCount

\* the scheduled (not the initial) executions among the recorded runs
ScheduledRuns == SelectSeq(RecordedRuns, LAMBDA r : r.scheduled)

\* how many runs at the end of the sequence panicked, one after the other
RECURSIVE TrailingPanics(_)
TrailingPanics(runs) ==
    IF runs = <<>> \/ ~runs[Len(runs)].panicked THEN 0
    ELSE 1 + TrailingPanics(SubSeq(runs, 1, Len(runs) - 1))

\* the scheduler is past its validation and has not returned
SchedulerRunning == sPc \in {"s_initial", "s_loop", "s_call", "s_called"}

\* the circuit breaker has tripped: state.Stop() is under way or done
BreakerTripped == sFrom = "breaker" \/ sReason = "breaker"

\* C26: a panic of the scheduled function never leaves the scheduler. The loop's count
\* is the number of scheduled executions that panicked one after the other since the
\* last one that returned (so a return resets it to 0, and the initial execution is
\* not counted); the circuit breaker trips exactly when that number is
\* MaxPanicRecovery (3), and the scheduler then marks itself stopped and returns.
\* Short of that the loop can always take another tick, it returns only for the
\* shutdown signal, marked stopped, and once the signal has arrived it does return.
C26_PanicsContainedBreakerAndShutdown ==
    /\ [](sPc # "crashed")
    /\ []((sPc \in {"s_loop", "returned"} /\ sReason # "invalid") =>
             consecutivePanics = TrailingPanics(ScheduledRuns))
    /\ []((SchedulerRunning /\ sCall # "RecordPanic") =>
             (BreakerTripped <=> TrailingPanics(ScheduledRuns) = DefaultMaxPanicRecovery))
    /\ [](TrailingPanics(ScheduledRuns) <= DefaultMaxPanicRecovery)
    /\ [](sPc = "s_loop" => TrailingPanics(ScheduledRuns) < DefaultMaxPanicRecovery)
    /\ []((sPc = "s_loop" /\ Len(sRuns) < MaxRuns) => ENABLED ScheduledExecution)
    /\ [](sPc = "returned" =>
             /\ sReason \in {"invalid", "breaker", "shutdown"}
             /\ sReason = "invalid" => (sInterval <= 0 /\ sRuns = <<>>)
             /\ sReason = "breaker" =>
                   (~state.IsRunning
                    /\ TrailingPanics(ScheduledRuns) = DefaultMaxPanicRecovery)
             /\ sReason = "shutdown" =>
                   (~state.IsRunning /\ sShutdown
                    /\ TrailingPanics(ScheduledRuns) < DefaultMaxPanicRecovery))
    /\ (sShutdown ~> sPc = "returned")

\* the initial execution panicked, a scheduled one returned, and the next three
\* scheduled ones panicked: the circuit breaker returned
C26_Witness ==
    /\ sPc = "returned"
    /\ sReason = "breaker"
    /\ Len(sRuns) = 5
    /\ ~sRuns[1].scheduled /\ sRuns[1].panicked
    /\ ~sRuns[2].panicked
    /\ state.PanicCount = 4
    /\ consecutivePanics = 3

\* a step in which a NextID call returns its ID
IDReturned == gMu # "free" /\ gMu' = "free"

\* C30: with a clock that never goes back, each ID a call returns is greater than the
\* ID returned before it, that is, IDs increase strictly in the order in which the
\* calls held the generator lock, so all of them differ; the sequence stays within
\* 0..4095; and a call that found the sequence wrapped leaves its loop, and returns,
\* only with a millisecond later than the last one stamped.
C30_IDsStrictlyIncrease ==
    /\ [](g.sequence \in 0..maxSequence /\ maxSequence = 4095)
    /\ [](\A c \in Callers :
            /\ nPc[c] = "spin" => (nWrapped /\ g.sequence = 0)
            /\ (nPc[c] = "stamp" /\ nWrapped) => (ts > g.lastStamp /\ g.sequence = 0))
    /\ [][IDReturned =>
            /\ lastID' > lastID
            /\ g'.lastStamp >= g.lastStamp
            /\ nWrapped => g'.lastStamp > g.lastStamp]_vars

\* the ID before was the 4096th of its millisecond, and the call holding the lock has
\* waited for a later millisecond
C30_Witness ==
    /\ \E c \in Callers : nPc[c] = "stamp" /\ nWrapped
    /\ g.lastStamp >= 0
    /\ lastID = composeID(g.lastStamp, g.nodeID, maxSequence)
    /\ ts > g.lastStamp

====
